---- MODULE Spec2Model ----
(***************************************************************************)
(* A model of terkoizmy/go-blog-api: the slug generator, the token         *)
(* service, the authorization checks of the handlers and the store they    *)
(* work on (a relational store with soft delete and unique indexes).       *)
(*                                                                         *)
(* Text is modelled as a sequence of one-character strings, so that the    *)
(* slug generator works character by character as the Go code does.        *)
(***************************************************************************)
EXTENDS Integers, Sequences, FiniteSets, TLC

VARIABLES
    users,            \* table users:       id -> row, for the ids in use
    posts,            \* table posts:       id -> row
    categories,       \* table categories:  id -> row
    comments,         \* table comments:    id -> row
    post_categories,  \* join table: set of <<post id, category id>>
    tokens,           \* token strings handed out by Login
    now,              \* the wall clock, in ticks
    request,          \* the last request, with what the middleware attached to it
    resp,             \* the response to it
    slugInput,        \* slug specification: the text given to the generator
    slugTrace,        \* slug specification: the successive results
    jwtCase,          \* token specification: the token under test
    inflight,         \* CreatePost requests between their slug query and insert
    editing           \* UpdatePost requests between their load and their save

vars == <<users, posts, categories, comments, post_categories, tokens, now,
          request, resp, slugInput, slugTrace, jwtCase, inflight, editing>>

storeVars == <<users, posts, categories, comments, post_categories>>

\* uuid.Nil and a nil *uuid.UUID; the ids in use are 1, 2, ...
NoID == 0
\* a nil *time.Time
NoTime == -1

(***************************************************************************)
(* Bounds of the model.                                                    *)
(***************************************************************************)
\* the longest text given to the slug generator
MaxLen == 4
\* how many times the slug generator is applied to its own result
SlugRounds == 2
\* the clock readings considered: up to MaxDays token lifetimes after the
\* start, each give or take up to MaxOffset ticks
MaxDays == 1
MaxOffset == 2
\* how many rows the requests may create in each table
MaxPosts == 1
MaxComments == 1
MaxCategories == 1
MaxSlugPosts == 2
MaxTokens == 2
MaxDrift == 1
MaxSessions == 1
MaxThreadPosts == 2
MaxThreadComments == 2
MaxClock == 3
MaxRacePosts == 1
MaxTagCategories == 2
MaxTagPosts == 1
MaxStaleTokens == 2

(***************************************************************************)
(* Characters.  Alphabet is the set of characters the inputs are drawn     *)
(* from: an upper-case and a lower-case letter, a digit, a space, a tab    *)
(* (whitespace other than a space), a hyphen and a special character.      *)
(***************************************************************************)
UpperLetters == {"A"}
LowerLetters == {"a"}
Digits == {"1"}
Whitespace == {" ", "\t"}
Alphabet == UpperLetters \cup LowerLetters \cup Digits \cup Whitespace \cup {"-", "!"}

RECURSIVE TextsUpTo(_)
TextsUpTo(n) ==
    IF n = 0 THEN {<<>>}
    ELSE LET shorter == TextsUpTo(n - 1)
         IN  shorter \cup {Append(s, c) : s \in shorter, c \in Alphabet}

\* strings.ToLower, on one character
ToLowerChar(c) == IF c = "A" THEN "a" ELSE c

\* strings.ToLower
ToLower(s) == [i \in 1..Len(s) |-> ToLowerChar(s[i])]

\* strings.ReplaceAll(s, " ", "-")
ReplaceSpaces(s) == [i \in 1..Len(s) |-> IF s[i] = " " THEN "-" ELSE s[i]]

\* the characters the pattern [^a-zA-Z0-9\s-]+ does not match
KeptByPattern(c) ==
    c \in LowerLetters \cup UpperLetters \cup Digits \cup Whitespace \cup {"-"}

\* removeSpecialChars: every run the pattern matches is replaced by ""
removeSpecialChars(input) == SelectSeq(input, KeptByPattern)

\* strings.Contains(s, "--")
ContainsDoubleHyphen(s) ==
    \E i \in 1..(Len(s) - 1) : s[i] = "-" /\ s[i + 1] = "-"

\* strings.ReplaceAll(s, "--", "-"): non-overlapping matches, left to right
RECURSIVE ReplaceDoubleHyphen(_)
ReplaceDoubleHyphen(s) ==
    IF Len(s) < 2 THEN s
    ELSE IF s[1] = "-" /\ s[2] = "-"
         THEN <<"-">> \o ReplaceDoubleHyphen(SubSeq(s, 3, Len(s)))
         ELSE <<s[1]>> \o ReplaceDoubleHyphen(Tail(s))

\* for strings.Contains(slug, "--") { slug = strings.ReplaceAll(slug, "--", "-") }
RECURSIVE CollapseHyphens(_)
CollapseHyphens(s) ==
    IF ContainsDoubleHyphen(s) THEN CollapseHyphens(ReplaceDoubleHyphen(s)) ELSE s

RECURSIVE TrimLeft(_)
TrimLeft(s) == IF s # <<>> /\ s[1] = "-" THEN TrimLeft(Tail(s)) ELSE s

RECURSIVE TrimRight(_)
TrimRight(s) ==
    IF s # <<>> /\ s[Len(s)] = "-" THEN TrimRight(SubSeq(s, 1, Len(s) - 1)) ELSE s

\* strings.Trim(s, "-")
TrimHyphens(s) == TrimRight(TrimLeft(s))

\* a plausible slip: the hyphens are collapsed before the spaces are replaced,
\* so the hyphens that come from spaces are never collapsed
generateSlugCollapseFirst(title) ==
    TrimHyphens(removeSpecialChars(ReplaceSpaces(CollapseHyphens(ToLower(title)))))

\* a plausible slip: the final strings.Trim is left out
generateSlugNoTrim(title) ==
    CollapseHyphens(removeSpecialChars(ReplaceSpaces(ToLower(title))))

generateSlug(title) ==
    TrimHyphens(CollapseHyphens(removeSpecialChars(ReplaceSpaces(ToLower(title)))))

generateCategorySlug(title) ==
    TrimHyphens(CollapseHyphens(removeSpecialChars(ReplaceSpaces(ToLower(title)))))

(***************************************************************************)
(* Credential and token service (package auth).                            *)
(*                                                                         *)
(* Time is counted in ticks, TicksPerSecond to the second; jwt.NumericDate *)
(* keeps whole seconds only.  A signed token is its claims together with   *)
(* an HS256 signature, which stands for the pair of the key and the signed *)
(* payload: two signatures are equal exactly when both are.                *)
(***************************************************************************)
TicksPerSecond == 2
HoursValid == 24
\* 24 * time.Hour, in ticks
TokenTTL == HoursValid * 3600 * TicksPerSecond

JWTSecret == "configured-secret"
OtherSecret == "another-secret"

\* jwt.NewNumericDate: truncated to the second
NumericDate(t) == t - (t % TicksPerSecond)

\* token.SignedString: HMAC-SHA256 of the payload under the key
SignedString(claims, secret) == <<"HS256", secret, claims>>

JWTClaim(user, t) ==
    [user_id   |-> user.id,
     username  |-> user.username,
     email     |-> user.email,
     role      |-> user.role,
     exp       |-> NumericDate(t + TokenTTL),
     iat       |-> NumericDate(t),
     nbf       |-> NumericDate(t),
     iss       |-> "blog-api",
     sub       |-> user.username]

\* a plausible slip: the role claim is not filled in from the user
GenerateTokenNoRole(user, jwtSecret, t) ==
    LET claims == [JWTClaim(user, t) EXCEPT !.role = "user"]
    IN  [claims |-> claims, signature |-> SignedString(claims, jwtSecret)]

GenerateToken(user, jwtSecret, t) ==
    LET claims == JWTClaim(user, t)
    IN  [claims |-> claims, signature |-> SignedString(claims, jwtSecret)]

\* a string that is no token at all: it does not parse into claims
NoClaims ==
    [user_id |-> NoID, username |-> "", email |-> "", role |-> "",
     exp |-> 0, iat |-> 0, nbf |-> 0, iss |-> "", sub |-> ""]
Garbage == [claims |-> NoClaims, signature |-> <<"none", "", NoClaims>>]

IsTokenShaped(signedToken) == signedToken.signature[1] = "HS256"

\* a plausible slip: a token is still good at the instant it expires
ClaimsValidAtExpiry(claims, t) ==
    /\ t <= claims.exp
    /\ t >= claims.iat
    /\ t >= claims.nbf

\* RegisteredClaims.Valid, as jwt.ParseWithClaims calls it: exp, iat and nbf
ClaimsValid(claims, t) ==
    /\ t < claims.exp
    /\ t >= claims.iat
    /\ t >= claims.nbf

Failed(error) == [ok |-> FALSE, error |-> error]

ValidateToken(signedToken, jwtSecret, t) ==
    IF ~IsTokenShaped(signedToken)
    THEN Failed("token contains an invalid number of segments")
    ELSE IF signedToken.signature # SignedString(signedToken.claims, jwtSecret)
    THEN Failed("signature is invalid")
    ELSE IF ~ClaimsValid(signedToken.claims, t)
    THEN Failed("token is expired or not valid yet")
    ELSE IF signedToken.claims.exp < t
    THEN Failed("token expired")
    ELSE [ok |-> TRUE, claims |-> signedToken.claims]

\* bcrypt.GenerateFromPassword: one way; only a comparison opens it
HashPassword(password) == <<"bcrypt", password>>

CheckPasswordHash(password, hash) == hash = HashPassword(password)

\* The Authorization header, as strings.Split(authHeader, " ") sees it: a
\* sequence of parts.  An absent header is the empty string, one empty part.
NoHeader == <<"">>
Bearer(signedToken) == <<"Bearer", signedToken>>
Basic(signedToken) == <<"Basic", signedToken>>

\* a plausible slip: only the absence of the header is looked at
AuthMiddlewareAnyScheme(parts, t) ==
    IF Len(parts) = 1 /\ parts[1] = ""
    THEN [ok |-> FALSE, code |-> 401, error |-> "authorization header is required"]
    ELSE IF Len(parts) # 2
    THEN [ok |-> FALSE, code |-> 401,
          error |-> "authorization header format must be Bearer {token}"]
    ELSE LET v == ValidateToken(parts[2], JWTSecret, t)
         IN  IF ~v.ok
             THEN [ok |-> FALSE, code |-> 401, error |-> v.error]
             ELSE [ok |-> TRUE,
                   userID   |-> v.claims.user_id,
                   username |-> v.claims.username,
                   email    |-> v.claims.email,
                   role     |-> v.claims.role]

\* a plausible slip: the role and the email read from the stored user
AuthMiddlewareStoredUser(parts, t) ==
    IF Len(parts) = 1 /\ parts[1] = ""
    THEN [ok |-> FALSE, code |-> 401, error |-> "authorization header is required"]
    ELSE IF Len(parts) # 2 \/ parts[1] # "Bearer"
    THEN [ok |-> FALSE, code |-> 401,
          error |-> "authorization header format must be Bearer {token}"]
    ELSE LET v == ValidateToken(parts[2], JWTSecret, t)
         IN  IF ~v.ok
             THEN [ok |-> FALSE, code |-> 401, error |-> v.error]
             ELSE [ok |-> TRUE,
                   userID   |-> v.claims.user_id,
                   username |-> v.claims.username,
                   email    |-> users[v.claims.user_id].email,
                   role     |-> users[v.claims.user_id].role]

AuthMiddleware(parts, t) ==
    IF Len(parts) = 1 /\ parts[1] = ""
    THEN [ok |-> FALSE, code |-> 401, error |-> "authorization header is required"]
    ELSE IF Len(parts) # 2 \/ parts[1] # "Bearer"
    THEN [ok |-> FALSE, code |-> 401,
          error |-> "authorization header format must be Bearer {token}"]
    ELSE LET v == ValidateToken(parts[2], JWTSecret, t)
         IN  IF ~v.ok
             THEN [ok |-> FALSE, code |-> 401, error |-> v.error]
             ELSE [ok |-> TRUE,
                   userID   |-> v.claims.user_id,
                   username |-> v.claims.username,
                   email    |-> v.claims.email,
                   role     |-> v.claims.role]

(***************************************************************************)
(* The store (gorm over PostgreSQL).  A row deleted through gorm keeps its *)
(* place with DeletedAt set: queries skip it, unique indexes do not.       *)
(***************************************************************************)
Live(table, id) == id \in DOMAIN table /\ ~table[id].deleted

LiveIDs(table) == {id \in DOMAIN table : ~table[id].deleted}

\* uuid.New() in BeforeCreate: an id no row has
NewID(table) == Cardinality(DOMAIN table) + 1

\* db.DB.Delete(&row)
SoftDelete(table, id) == [table EXCEPT ![id].deleted = TRUE]

\* uniqueIndex on a column: another row, deleted or not, holds the value
IndexViolated(table, column, value, self) ==
    \E id \in DOMAIN table : id # self /\ table[id][column] = value

\* uuid.Parse of a path parameter: the malformed ones are the negative numbers
ParseFails(id) == id < 0

Reply(op, code, error) == resp' = [op |-> op, code |-> code, error |-> error]

\* the request as the handler sees it: the Authorization header, the path
\* parameter and the values AuthMiddleware set on the context (none when it
\* aborted the request)
Received(op, header, auth, id) ==
    [op |-> op, header |-> header, id |-> id,
     userID   |-> IF auth.ok THEN auth.userID ELSE NoID,
     username |-> IF auth.ok THEN auth.username ELSE "",
     email    |-> IF auth.ok THEN auth.email ELSE "",
     role     |-> IF auth.ok THEN auth.role ELSE ""]

\* a public route: no middleware runs
Public == [ok |-> FALSE]

specVars == <<slugInput, slugTrace, jwtCase, inflight, editing>>

(***************************************************************************)
(* User handlers.                                                          *)
(***************************************************************************)
\* binding:"required" on the fields of RegisterRequest
BindRegister(req) == req.username # "" /\ req.email # "" /\ req.password # ""

Register(req) ==
    /\ UNCHANGED <<posts, categories, comments, post_categories, tokens, now, specVars>>
    /\ request' = Received("Register", NoHeader, Public, NoID)
    /\ IF ~BindRegister(req)
       THEN Reply("Register", 400, "invalid request") /\ UNCHANGED users
       ELSE IF \E id \in LiveIDs(users) : users[id].username = req.username
       THEN Reply("Register", 400, "username already exists") /\ UNCHANGED users
       ELSE IF \E id \in LiveIDs(users) : users[id].email = req.email
       THEN Reply("Register", 400, "email already exists") /\ UNCHANGED users
       ELSE IF \/ IndexViolated(users, "username", req.username, NoID)
               \/ IndexViolated(users, "email", req.email, NoID)
       THEN Reply("Register", 500, "failed to create user") /\ UNCHANGED users
       ELSE LET id == NewID(users)
                user == [id         |-> id,
                         username   |-> req.username,
                         email      |-> req.email,
                         password   |-> HashPassword(req.password),
                         first_name |-> req.first_name,
                         last_name  |-> req.last_name,
                         role       |-> "user",
                         deleted    |-> FALSE]
            IN  /\ users' = users @@ (id :> user)
                /\ Reply("Register", 201, "")

Login(req) ==
    /\ UNCHANGED <<storeVars, now, specVars>>
    /\ request' = Received("Login", NoHeader, Public, NoID)
    /\ IF req.username = "" \/ req.password = ""
       THEN Reply("Login", 400, "invalid request") /\ UNCHANGED tokens
       ELSE IF ~\E id \in LiveIDs(users) : users[id].username = req.username
       THEN Reply("Login", 401, "invalid credentials") /\ UNCHANGED tokens
       ELSE LET id == CHOOSE i \in LiveIDs(users) : users[i].username = req.username
            IN  IF ~CheckPasswordHash(req.password, users[id].password)
                THEN Reply("Login", 401, "invalid credentials") /\ UNCHANGED tokens
                ELSE /\ tokens' = tokens \cup {GenerateToken(users[id], JWTSecret, now)}
                     /\ Reply("Login", 200, "")

\* a plausible slip: the check is left out
userPermissionDeniedNever(userUUID, requestingUserID, roleStr) == FALSE

\* UpdateUser and DeleteUser: if userUUID != requestingUserID && roleStr != "admin"
userPermissionDenied(userUUID, requestingUserID, roleStr) ==
    userUUID # requestingUserID /\ roleStr # "admin"

\* a plausible slip: the role is written for every caller
MayWriteRoleAnyone(roleStr) == TRUE

\* a plausible slip: the test on the caller's role negated
MayWriteRoleUnlessAdmin(roleStr) == roleStr # "admin"

\* "Only admins can update roles"
MayWriteRole(roleStr) == roleStr = "admin"

\* the fields UpdateUser writes into the loaded row before saving it
UpdatedUser(user, updateData, roleStr) ==
    [user EXCEPT
       !.first_name = IF updateData.first_name # "" THEN updateData.first_name ELSE @,
       !.last_name  = IF updateData.last_name # "" THEN updateData.last_name ELSE @,
       !.email      = IF updateData.email # "" THEN updateData.email ELSE @,
       !.role       = IF updateData.role # "" /\ MayWriteRole(roleStr)
                      THEN updateData.role ELSE @,
       !.password   = IF updateData.password # ""
                      THEN HashPassword(updateData.password) ELSE @]

UpdateUser(header, id, updateData) ==
    LET auth == AuthMiddleware(header, now)
    IN  /\ UNCHANGED <<posts, categories, comments, post_categories, tokens, now, specVars>>
        /\ request' = Received("UpdateUser", header, auth, id)
        /\ IF ~auth.ok
           THEN Reply("UpdateUser", auth.code, auth.error) /\ UNCHANGED users
           ELSE IF ParseFails(id)
           THEN Reply("UpdateUser", 400, "invalid user ID format") /\ UNCHANGED users
           ELSE IF userPermissionDenied(id, auth.userID, auth.role)
           THEN Reply("UpdateUser", 403, "permission denied") /\ UNCHANGED users
           ELSE IF ~Live(users, id)
           THEN Reply("UpdateUser", 404, "user not found") /\ UNCHANGED users
           ELSE IF /\ updateData.email # ""
                   /\ updateData.email # users[id].email
                   /\ \E o \in LiveIDs(users) :
                          o # id /\ users[o].email = updateData.email
           THEN Reply("UpdateUser", 400, "email already exists") /\ UNCHANGED users
           ELSE LET user == UpdatedUser(users[id], updateData, auth.role)
                IN  IF IndexViolated(users, "email", user.email, id)
                    THEN /\ Reply("UpdateUser", 500, "failed to update user")
                         /\ UNCHANGED users
                    ELSE /\ users' = [users EXCEPT ![id] = user]
                         /\ Reply("UpdateUser", 200, "")

DeleteUser(header, id) ==
    LET auth == AuthMiddleware(header, now)
    IN  /\ UNCHANGED <<posts, categories, comments, post_categories, tokens, now, specVars>>
        /\ request' = Received("DeleteUser", header, auth, id)
        /\ IF ~auth.ok
           THEN Reply("DeleteUser", auth.code, auth.error) /\ UNCHANGED users
           ELSE IF ParseFails(id)
           THEN Reply("DeleteUser", 400, "invalid user ID format") /\ UNCHANGED users
           ELSE IF userPermissionDenied(id, auth.userID, auth.role)
           THEN Reply("DeleteUser", 403, "permission denied") /\ UNCHANGED users
           ELSE IF ~Live(users, id)
           THEN Reply("DeleteUser", 404, "user not found") /\ UNCHANGED users
           ELSE /\ users' = SoftDelete(users, id)
                /\ Reply("DeleteUser", 200, "")

(***************************************************************************)
(* Post handlers.                                                          *)
(***************************************************************************)
\* uuid.New().String()[:8]
SuffixLen == 8

\* slug + "-" + uuid.New().String()[:8]
WithSuffix(slug, random) == slug \o <<"-">> \o random

\* db.DB.Where("slug = ?", slug).First(&existing): RowsAffected > 0
SlugTaken(table, slug) == \E id \in LiveIDs(table) : table[id].slug = slug

\* db.DB.Where("slug = ? AND id != ?", slug, id).First(&existing)
SlugTakenByOther(table, slug, self) ==
    \E id \in LiveIDs(table) : id # self /\ table[id].slug = slug

\* a plausible slip: a posts table without the unique index on slug
PostSlugIndexMissing(slug, self) == FALSE

\* Post.Slug `gorm:"uniqueIndex"`: the insert or update is refused
PostSlugIndexViolated(slug, self) == IndexViolated(posts, "slug", slug, self)

\* a plausible slip: "or" where the handlers have "and"
postPermissionDeniedOr(postAuthorID, authorID, roleStr) ==
    postAuthorID # authorID \/ roleStr # "admin"

\* UpdatePost and DeletePost: post.AuthorID != authorID && roleStr != "admin"
postPermissionDenied(postAuthorID, authorID, roleStr) ==
    postAuthorID # authorID /\ roleStr # "admin"

\* binding:"required" on Title and Content of PostRequest
BindPost(req) == req.title # <<>> /\ req.content # ""

\* a plausible slip: the association added without looking the category up
AssociationsUnchecked(postID, categoryIDs) ==
    {<<postID, c>> : c \in categoryIDs}

\* the loop over req.CategoryIDs: the ids no live category has are skipped
Associations(postID, categoryIDs) ==
    {<<postID, c>> : c \in {x \in categoryIDs : Live(categories, x)}}

\* "Generate slug if not provided", and normalise the one provided
CreatedPostBase(req) ==
    IF req.slug = <<>> THEN generateSlug(req.title) ELSE generateSlug(req.slug)

\* the slug CreatePost stores
CreatedPostSlug(req, random) ==
    LET slug == CreatedPostBase(req)
    IN  IF SlugTaken(posts, slug) THEN WithSuffix(slug, random) ELSE slug

\* the row CreatePost hands to db.DB.Create
NewPost(id, req, slug, authorID, t) ==
    LET status == IF req.status = "" THEN "draft" ELSE req.status
    IN  [id           |-> id,
         title        |-> req.title,
         content      |-> req.content,
         slug         |-> slug,
         status       |-> status,
         author_id    |-> authorID,
         published_at |-> IF status = "published" THEN t ELSE NoTime,
         deleted      |-> FALSE]

CreatePost(header, req, random) ==
    LET auth == AuthMiddleware(header, now)
    IN  /\ UNCHANGED <<users, categories, comments, tokens, now, specVars>>
        /\ request' = Received("CreatePost", header, auth, NoID)
        /\ IF ~auth.ok
           THEN /\ Reply("CreatePost", auth.code, auth.error)
                /\ UNCHANGED <<posts, post_categories>>
           ELSE IF ~BindPost(req)
           THEN /\ Reply("CreatePost", 400, "invalid request")
                /\ UNCHANGED <<posts, post_categories>>
           ELSE LET slug == CreatedPostSlug(req, random)
                    id == NewID(posts)
                    post == NewPost(id, req, slug, auth.userID, now)
                IN  IF PostSlugIndexViolated(slug, NoID)
                    THEN /\ Reply("CreatePost", 500, "failed to create post")
                         /\ UNCHANGED <<posts, post_categories>>
                    ELSE /\ posts' = posts @@ (id :> post)
                         /\ post_categories' =
                                post_categories \cup Associations(id, req.category_ids)
                         /\ Reply("CreatePost", 201, "")

\* the slug UpdatePost saves
UpdatedPostSlug(post, req, random) ==
    LET slug == IF req.slug # <<>> THEN generateSlug(req.slug)
                ELSE IF req.title # <<>> THEN generateSlug(req.title)
                ELSE post.slug
    IN  IF SlugTakenByOther(posts, slug, post.id)
        THEN WithSuffix(slug, random) ELSE slug

\* a plausible slip: every change to published stamps the post anew
UpdatedPostRestamped(post, req, random, t) ==
    LET changes == req.status # "" /\ req.status # post.status
    IN  [post EXCEPT
           !.title   = IF req.title # <<>> THEN req.title ELSE @,
           !.content = IF req.content # "" THEN req.content ELSE @,
           !.slug    = UpdatedPostSlug(post, req, random),
           !.status  = IF changes THEN req.status ELSE @,
           !.published_at =
               IF changes /\ req.status = "published" THEN t ELSE @]

\* a plausible slip: the row to save built anew, without the author
UpdatedPostOrphaned(post, req, random, t) ==
    LET changes == req.status # "" /\ req.status # post.status
    IN  [post EXCEPT
           !.title   = IF req.title # <<>> THEN req.title ELSE @,
           !.content = IF req.content # "" THEN req.content ELSE @,
           !.slug    = UpdatedPostSlug(post, req, random),
           !.status  = IF changes THEN req.status ELSE @,
           !.author_id = NoID,
           !.published_at =
               IF changes /\ req.status = "published" /\ post.published_at = NoTime
               THEN t ELSE @]

\* the row UpdatePost saves
UpdatedPost(post, req, random, t) ==
    LET changes == req.status # "" /\ req.status # post.status
    IN  [post EXCEPT
           !.title   = IF req.title # <<>> THEN req.title ELSE @,
           !.content = IF req.content # "" THEN req.content ELSE @,
           !.slug    = UpdatedPostSlug(post, req, random),
           !.status  = IF changes THEN req.status ELSE @,
           !.published_at =
               IF changes /\ req.status = "published" /\ post.published_at = NoTime
               THEN t ELSE @]

UpdatePost(header, id, req, random) ==
    LET auth == AuthMiddleware(header, now)
    IN  /\ UNCHANGED <<users, categories, comments, tokens, now, specVars>>
        /\ request' = Received("UpdatePost", header, auth, id)
        /\ IF ~auth.ok
           THEN /\ Reply("UpdatePost", auth.code, auth.error)
                /\ UNCHANGED <<posts, post_categories>>
           ELSE IF ParseFails(id)
           THEN /\ Reply("UpdatePost", 400, "invalid post ID format")
                /\ UNCHANGED <<posts, post_categories>>
           ELSE IF ~Live(posts, id)
           THEN /\ Reply("UpdatePost", 404, "post not found")
                /\ UNCHANGED <<posts, post_categories>>
           ELSE IF postPermissionDenied(posts[id].author_id, auth.userID, auth.role)
           THEN /\ Reply("UpdatePost", 403, "permission denied")
                /\ UNCHANGED <<posts, post_categories>>
           ELSE IF ~BindPost(req)
           THEN /\ Reply("UpdatePost", 400, "invalid request")
                /\ UNCHANGED <<posts, post_categories>>
           ELSE LET post == UpdatedPost(posts[id], req, random, now)
                IN  IF PostSlugIndexViolated(post.slug, id)
                    THEN /\ Reply("UpdatePost", 500, "failed to update post")
                         /\ UNCHANGED <<posts, post_categories>>
                    ELSE /\ posts' = [posts EXCEPT ![id] = post]
                         /\ post_categories' =
                                IF req.category_ids = {}
                                THEN post_categories
                                ELSE {pc \in post_categories : pc[1] # id}
                                         \cup Associations(id, req.category_ids)
                         /\ Reply("UpdatePost", 200, "")

DeletePost(header, id) ==
    LET auth == AuthMiddleware(header, now)
    IN  /\ UNCHANGED <<users, categories, comments, post_categories, tokens, now, specVars>>
        /\ request' = Received("DeletePost", header, auth, id)
        /\ IF ~auth.ok
           THEN Reply("DeletePost", auth.code, auth.error) /\ UNCHANGED posts
           ELSE IF ParseFails(id)
           THEN Reply("DeletePost", 400, "invalid post ID format") /\ UNCHANGED posts
           ELSE IF ~Live(posts, id)
           THEN Reply("DeletePost", 404, "post not found") /\ UNCHANGED posts
           ELSE IF postPermissionDenied(posts[id].author_id, auth.userID, auth.role)
           THEN Reply("DeletePost", 403, "permission denied") /\ UNCHANGED posts
           ELSE /\ posts' = SoftDelete(posts, id)
                /\ Reply("DeletePost", 200, "")

(***************************************************************************)
(* Category handlers.                                                      *)
(***************************************************************************)
\* a plausible slip: any authenticated caller passes
categoryPermissionDeniedNever(roleStr) == FALSE

\* CreateCategory, UpdateCategory, DeleteCategory: !ok || roleStr != "admin"
categoryPermissionDenied(roleStr) == roleStr # "admin"

\* Category.Name and Category.Slug `gorm:"uniqueIndex"`
CategoryIndexViolated(name, slug, self) ==
    \/ IndexViolated(categories, "name", name, self)
    \/ IndexViolated(categories, "slug", slug, self)

\* "Generate slug if not provided", and normalise the one provided
CreatedCategoryBase(req) ==
    IF req.slug = <<>> THEN generateCategorySlug(req.name)
    ELSE generateCategorySlug(req.slug)

CreateCategory(header, req, random) ==
    LET auth == AuthMiddleware(header, now)
    IN  /\ UNCHANGED <<users, posts, comments, post_categories, tokens, now, specVars>>
        /\ request' = Received("CreateCategory", header, auth, NoID)
        /\ IF ~auth.ok
           THEN Reply("CreateCategory", auth.code, auth.error) /\ UNCHANGED categories
           ELSE IF categoryPermissionDenied(auth.role)
           THEN Reply("CreateCategory", 403, "permission denied") /\ UNCHANGED categories
           ELSE IF req.name = <<>>
           THEN Reply("CreateCategory", 400, "invalid request") /\ UNCHANGED categories
           ELSE LET base == CreatedCategoryBase(req)
                    slug == IF SlugTaken(categories, base)
                            THEN WithSuffix(base, random) ELSE base
                    id == NewID(categories)
                    category == [id |-> id, name |-> req.name, slug |-> slug,
                                 deleted |-> FALSE]
                IN  IF CategoryIndexViolated(req.name, slug, NoID)
                    THEN /\ Reply("CreateCategory", 500, "failed to create category")
                         /\ UNCHANGED categories
                    ELSE /\ categories' = categories @@ (id :> category)
                         /\ Reply("CreateCategory", 201, "")

\* the row UpdateCategory saves
UpdatedCategory(category, req, random) ==
    LET base == IF req.slug # <<>> THEN generateCategorySlug(req.slug)
                ELSE IF req.name # <<>> THEN generateCategorySlug(req.name)
                ELSE category.slug
    IN  [category EXCEPT
           !.name = IF req.name # <<>> THEN req.name ELSE @,
           !.slug = IF SlugTakenByOther(categories, base, category.id)
                    THEN WithSuffix(base, random) ELSE base]

UpdateCategory(header, id, req, random) ==
    LET auth == AuthMiddleware(header, now)
    IN  /\ UNCHANGED <<users, posts, comments, post_categories, tokens, now, specVars>>
        /\ request' = Received("UpdateCategory", header, auth, id)
        /\ IF ~auth.ok
           THEN Reply("UpdateCategory", auth.code, auth.error) /\ UNCHANGED categories
           ELSE IF categoryPermissionDenied(auth.role)
           THEN Reply("UpdateCategory", 403, "permission denied") /\ UNCHANGED categories
           ELSE IF ParseFails(id)
           THEN /\ Reply("UpdateCategory", 400, "invalid category ID format")
                /\ UNCHANGED categories
           ELSE IF ~Live(categories, id)
           THEN Reply("UpdateCategory", 404, "category not found") /\ UNCHANGED categories
           ELSE IF req.name = <<>>
           THEN Reply("UpdateCategory", 400, "invalid request") /\ UNCHANGED categories
           ELSE LET category == UpdatedCategory(categories[id], req, random)
                IN  IF CategoryIndexViolated(category.name, category.slug, id)
                    THEN /\ Reply("UpdateCategory", 500, "failed to update category")
                         /\ UNCHANGED categories
                    ELSE /\ categories' = [categories EXCEPT ![id] = category]
                         /\ Reply("UpdateCategory", 200, "")

DeleteCategory(header, id) ==
    LET auth == AuthMiddleware(header, now)
    IN  /\ UNCHANGED <<users, posts, comments, tokens, now, specVars>>
        /\ request' = Received("DeleteCategory", header, auth, id)
        /\ IF ~auth.ok
           THEN /\ Reply("DeleteCategory", auth.code, auth.error)
                /\ UNCHANGED <<categories, post_categories>>
           ELSE IF categoryPermissionDenied(auth.role)
           THEN /\ Reply("DeleteCategory", 403, "permission denied")
                /\ UNCHANGED <<categories, post_categories>>
           ELSE IF ParseFails(id)
           THEN /\ Reply("DeleteCategory", 400, "invalid category ID format")
                /\ UNCHANGED <<categories, post_categories>>
           ELSE IF ~Live(categories, id)
           THEN /\ Reply("DeleteCategory", 404, "category not found")
                /\ UNCHANGED <<categories, post_categories>>
           ELSE /\ post_categories' = {pc \in post_categories : pc[2] # id}
                /\ categories' = SoftDelete(categories, id)
                /\ Reply("DeleteCategory", 200, "")

(***************************************************************************)
(* Comment handlers.                                                       *)
(***************************************************************************)
\* UpdateComment and DeleteComment:
\* comment.AuthorID != authorID && roleStr != "admin"
commentPermissionDenied(commentAuthorID, authorID, roleStr) ==
    commentAuthorID # authorID /\ roleStr # "admin"

\* a plausible slip: every post can be commented on
CommentableAlways(post) == TRUE

\* "Only allow comments on published posts"
Commentable(post) == post.status = "published"

\* a plausible slip: the parent's post is not compared
ParentElsewhereNever(parentID, postID) == FALSE

\* parentComment.PostID != postUUID
ParentElsewhere(parentID, postID) == comments[parentID].post_id # postID

CreateComment(header, postID, req) ==
    LET auth == AuthMiddleware(header, now)
    IN  /\ UNCHANGED <<users, posts, categories, post_categories, tokens, now, specVars>>
        /\ request' = Received("CreateComment", header, auth, postID)
        /\ IF ~auth.ok
           THEN Reply("CreateComment", auth.code, auth.error) /\ UNCHANGED comments
           ELSE IF ParseFails(postID)
           THEN Reply("CreateComment", 400, "invalid post ID format") /\ UNCHANGED comments
           ELSE IF ~Live(posts, postID)
           THEN Reply("CreateComment", 404, "post not found") /\ UNCHANGED comments
           ELSE IF ~Commentable(posts[postID])
           THEN /\ Reply("CreateComment", 400, "cannot comment on unpublished posts")
                /\ UNCHANGED comments
           ELSE IF req.content = ""
           THEN Reply("CreateComment", 400, "invalid request") /\ UNCHANGED comments
           ELSE IF req.parent_id # NoID /\ ~Live(comments, req.parent_id)
           THEN /\ Reply("CreateComment", 400, "parent comment not found")
                /\ UNCHANGED comments
           ELSE IF req.parent_id # NoID /\ ParentElsewhere(req.parent_id, postID)
           THEN /\ Reply("CreateComment", 400,
                         "parent comment does not belong to the same post")
                /\ UNCHANGED comments
           ELSE LET id == NewID(comments)
                    comment == [id        |-> id,
                                content   |-> req.content,
                                post_id   |-> postID,
                                author_id |-> auth.userID,
                                parent_id |-> req.parent_id,
                                deleted   |-> FALSE]
                IN  /\ comments' = comments @@ (id :> comment)
                    /\ Reply("CreateComment", 201, "")

\* a plausible slip: the parent of the request is saved with the content
UpdatedCommentReparented(comment, req) ==
    [comment EXCEPT !.content = req.content, !.parent_id = req.parent_id]

\* the row UpdateComment saves: of the request only the content is used
UpdatedComment(comment, req) == [comment EXCEPT !.content = req.content]

UpdateComment(header, id, req) ==
    LET auth == AuthMiddleware(header, now)
    IN  /\ UNCHANGED <<users, posts, categories, post_categories, tokens, now, specVars>>
        /\ request' = Received("UpdateComment", header, auth, id)
        /\ IF ~auth.ok
           THEN Reply("UpdateComment", auth.code, auth.error) /\ UNCHANGED comments
           ELSE IF ParseFails(id)
           THEN /\ Reply("UpdateComment", 400, "invalid comment ID format")
                /\ UNCHANGED comments
           ELSE IF ~Live(comments, id)
           THEN Reply("UpdateComment", 404, "Comment not found") /\ UNCHANGED comments
           ELSE IF commentPermissionDenied(comments[id].author_id, auth.userID, auth.role)
           THEN Reply("UpdateComment", 403, "permission denied") /\ UNCHANGED comments
           ELSE IF req.content = ""
           THEN Reply("UpdateComment", 400, "invalid request") /\ UNCHANGED comments
           ELSE /\ comments' = [comments EXCEPT ![id] = UpdatedComment(@, req)]
                /\ Reply("UpdateComment", 200, "")

DeleteComment(header, id) ==
    LET auth == AuthMiddleware(header, now)
    IN  /\ UNCHANGED <<users, posts, categories, post_categories, tokens, now, specVars>>
        /\ request' = Received("DeleteComment", header, auth, id)
        /\ IF ~auth.ok
           THEN Reply("DeleteComment", auth.code, auth.error) /\ UNCHANGED comments
           ELSE IF ParseFails(id)
           THEN /\ Reply("DeleteComment", 400, "invalid comment ID format")
                /\ UNCHANGED comments
           ELSE IF ~Live(comments, id)
           THEN Reply("DeleteComment", 404, "Comment not found") /\ UNCHANGED comments
           ELSE IF commentPermissionDenied(comments[id].author_id, auth.userID, auth.role)
           THEN Reply("DeleteComment", 403, "permission denied") /\ UNCHANGED comments
           ELSE /\ comments' = SoftDelete(comments, id)
                /\ Reply("DeleteComment", 200, "")

(***************************************************************************)
(* CreatePost as the goroutines of two requests run it: the query that     *)
(* counts the posts holding the slug and the insert are two statements of  *)
(* the database, and the statements of another request may fall between    *)
(* them.  inflight[r] holds the locals of request r between the two, with  *)
(* overlapped recording that another request was there at the same time.   *)
(***************************************************************************)
Racers == {1, 2}

\* CreatePost up to the end of the slug block
CreatePostCheck(r, header, req, random) ==
    LET auth == AuthMiddleware(header, now)
    IN  /\ inflight[r].stage = "idle"
        /\ UNCHANGED <<storeVars, tokens, now, slugInput, slugTrace, jwtCase, editing>>
        /\ IF ~auth.ok
           THEN /\ request' = Received("CreatePost", header, auth, NoID)
                /\ Reply("CreatePost", auth.code, auth.error)
                /\ UNCHANGED inflight
           ELSE IF ~BindPost(req)
           THEN /\ request' = Received("CreatePost", header, auth, NoID)
                /\ Reply("CreatePost", 400, "invalid request")
                /\ UNCHANGED inflight
           ELSE LET others == {o \in Racers \ {r} : inflight[o].stage = "checked"}
                IN  /\ inflight' =
                           [o \in Racers |->
                               IF o = r
                               THEN [stage |-> "checked",
                                     call  |-> Received("CreatePost", header, auth, NoID),
                                     req   |-> req,
                                     slug  |-> CreatedPostSlug(req, random),
                                     overlapped |-> others # {},
                                     code  |-> 0]
                               ELSE IF o \in others
                               THEN [inflight[o] EXCEPT !.overlapped = TRUE]
                               ELSE inflight[o]]
                    /\ UNCHANGED <<request, resp>>

\* CreatePost from db.DB.Create to the response
CreatePostInsert(r) ==
    LET mine == inflight[r]
        id == NewID(posts)
        post == NewPost(id, mine.req, mine.slug, mine.call.userID, now)
        refused == PostSlugIndexViolated(mine.slug, NoID)
    IN  /\ mine.stage = "checked"
        /\ UNCHANGED <<users, categories, comments, tokens, now,
                       slugInput, slugTrace, jwtCase, editing>>
        /\ request' = mine.call
        /\ inflight' = [inflight EXCEPT ![r].stage = "done",
                                        ![r].code = IF refused THEN 500 ELSE 201]
        /\ IF refused
           THEN /\ Reply("CreatePost", 500, "failed to create post")
                /\ UNCHANGED <<posts, post_categories>>
           ELSE /\ posts' = posts @@ (id :> post)
                /\ post_categories' =
                       post_categories \cup Associations(id, mine.req.category_ids)
                /\ Reply("CreatePost", 201, "")

(***************************************************************************)
(* What every specification starts from.                                   *)
(***************************************************************************)
NoResponse == [op |-> "", code |-> 0, error |-> ""]

NoRequest == Received("", NoHeader, Public, NoID)

NoJwtCase ==
    [stage |-> "idle", user |-> NoClaims, secret |-> "", token |-> Garbage,
     issuedAt |-> 0, checkedWith |-> "", checkedAt |-> 0,
     result |-> Failed("")]

\* no CreatePost request is between its slug query and its insert
NoneInFlight ==
    [r \in Racers |->
        [stage |-> "idle", call |-> NoRequest,
         req |-> [title |-> <<>>, content |-> "", slug |-> <<>>, status |-> "",
                  category_ids |-> {}],
         slug |-> <<>>, overlapped |-> FALSE, code |-> 0]]

\* no UpdatePost request is between its load and its save
NoneEditing ==
    [r \in Racers |->
        [stage |-> "idle", call |-> NoRequest,
         req |-> [title |-> <<>>, content |-> "", slug |-> <<>>, status |-> "",
                  category_ids |-> {}],
         post |-> NewPost(NoID, [title |-> <<>>, content |-> "", status |-> ""],
                          <<>>, NoID, NoTime),
         todo |-> {}, found |-> NoID]]

(***************************************************************************)
(* UpdatePost as the goroutines of two requests run it: the handler loads  *)
(* the row into its own copy, changes the copy and saves every column of   *)
(* it; the statements of another request may fall between the load and the *)
(* save, and between the statements of the loop over the category ids,    *)
(* which looks a category up and then appends the association.            *)
(* editing[r] holds the copy and the request of r, the ids the loop has    *)
(* yet to visit and the category it has found and not yet appended.        *)
(***************************************************************************)

\* UpdatePost up to the binding of the request
UpdatePostLoad(r, header, id, req) ==
    LET auth == AuthMiddleware(header, now)
        answered(code, error) ==
            /\ request' = Received("UpdatePost", header, auth, id)
            /\ Reply("UpdatePost", code, error)
            /\ UNCHANGED editing
    IN  /\ editing[r].stage = "idle"
        /\ UNCHANGED <<storeVars, tokens, now, slugInput, slugTrace, jwtCase, inflight>>
        /\ IF ~auth.ok
           THEN answered(auth.code, auth.error)
           ELSE IF ParseFails(id)
           THEN answered(400, "invalid post ID format")
           ELSE IF ~Live(posts, id)
           THEN answered(404, "post not found")
           ELSE IF postPermissionDenied(posts[id].author_id, auth.userID, auth.role)
           THEN answered(403, "permission denied")
           ELSE IF ~BindPost(req)
           THEN answered(400, "invalid request")
           ELSE /\ editing' =
                       [editing EXCEPT ![r] =
                           [stage |-> "loaded",
                            call  |-> Received("UpdatePost", header, auth, id),
                            req   |-> req,
                            post  |-> posts[id],
                            todo  |-> {},
                            found |-> NoID]]
                /\ UNCHANGED <<request, resp>>

\* UpdatePost from the slug block to Association("Categories").Clear():
\* db.DB.Save writes the copy
UpdatePostSave(r, random) ==
    LET mine == editing[r]
        id == mine.post.id
        post == UpdatedPost(mine.post, mine.req, random, now)
    IN  /\ mine.stage = "loaded"
        /\ UNCHANGED <<users, categories, comments, tokens, now,
                       slugInput, slugTrace, jwtCase, inflight>>
        /\ IF PostSlugIndexViolated(post.slug, id)
           THEN /\ request' = mine.call
                /\ Reply("UpdatePost", 500, "failed to update post")
                /\ editing' = [editing EXCEPT ![r] = NoneEditing[r]]
                /\ UNCHANGED <<posts, post_categories>>
           ELSE /\ posts' = [posts EXCEPT ![id] = post]
                /\ post_categories' =
                       IF mine.req.category_ids = {}
                       THEN post_categories
                       ELSE {pc \in post_categories : pc[1] # id}
                /\ editing' = [editing EXCEPT ![r].stage = "saved",
                                              ![r].todo = mine.req.category_ids]
                /\ UNCHANGED <<request, resp>>

\* one turn of the loop, first half: db.DB.Where("id = ?", categoryID).First
UpdatePostLookup(r) ==
    /\ editing[r].stage = "saved"
    /\ editing[r].found = NoID
    /\ \E c \in editing[r].todo :
          editing' = [editing EXCEPT
                        ![r].todo = @ \ {c},
                        ![r].found = IF Live(categories, c) THEN c ELSE NoID]
    /\ UNCHANGED <<storeVars, tokens, now, request, resp,
                   slugInput, slugTrace, jwtCase, inflight>>

\* one turn of the loop, second half: Association("Categories").Append
UpdatePostAppend(r) ==
    /\ editing[r].stage = "saved"
    /\ editing[r].found # NoID
    /\ post_categories' =
           post_categories \cup {<<editing[r].post.id, editing[r].found>>}
    /\ editing' = [editing EXCEPT ![r].found = NoID]
    /\ UNCHANGED <<users, posts, categories, comments, tokens, now, request, resp,
                   slugInput, slugTrace, jwtCase, inflight>>

\* UpdatePost after the loop: the response
UpdatePostReply(r) ==
    /\ editing[r].stage = "saved"
    /\ editing[r].found = NoID
    /\ editing[r].todo = {}
    /\ request' = editing[r].call
    /\ Reply("UpdatePost", 200, "")
    /\ editing' = [editing EXCEPT ![r] = NoneEditing[r]]
    /\ UNCHANGED <<storeVars, tokens, now, slugInput, slugTrace, jwtCase, inflight>>

EmptyStore ==
    /\ users = <<>>
    /\ posts = <<>>
    /\ categories = <<>>
    /\ comments = <<>>
    /\ post_categories = {}

(***************************************************************************)
(* SpecSlug: the slug generators applied to every text of up to MaxLen     *)
(* characters, and then to their own results.                              *)
(***************************************************************************)
SlugSubject == IF slugTrace = <<>> THEN slugInput ELSE slugTrace[Len(slugTrace)]

ApplySlug ==
    /\ Len(slugTrace) < SlugRounds
    /\ slugTrace' = Append(slugTrace, generateSlug(SlugSubject))
    /\ UNCHANGED <<storeVars, tokens, now, request, resp, slugInput, jwtCase, inflight,
                   editing>>

ApplyCategorySlug ==
    /\ Len(slugTrace) < SlugRounds
    /\ slugTrace' = Append(slugTrace, generateCategorySlug(SlugSubject))
    /\ UNCHANGED <<storeVars, tokens, now, request, resp, slugInput, jwtCase, inflight,
                   editing>>

InitSlug ==
    /\ EmptyStore
    /\ tokens = {}
    /\ now = 0
    /\ request = NoRequest
    /\ resp = NoResponse
    /\ jwtCase = NoJwtCase
    /\ inflight = NoneInFlight
    /\ editing = NoneEditing
    /\ slugInput \in TextsUpTo(MaxLen)
    /\ slugTrace = <<>>

NextSlug == ApplySlug \/ ApplyCategorySlug

SpecSlug == InitSlug /\ [][NextSlug]_vars

(***************************************************************************)
(* SpecToken: a token is generated for a user at some instant and          *)
(* validated at the same or a later instant, with the same or another key. *)
(***************************************************************************)
Instants ==
    {t \in {d * TokenTTL + o : d \in 0..MaxDays, o \in (0 - MaxOffset)..MaxOffset} :
        t >= 0}

TokenUsers ==
    {[id |-> 1, username |-> "root", email |-> "root@blog", role |-> "admin"],
     [id |-> 2, username |-> "alice", email |-> "alice@blog", role |-> "user"],
     [id |-> 3, username |-> "bob", email |-> "bob@blog", role |-> "user"]}

Secrets == {JWTSecret, OtherSecret}

IssueToken(user, secret) ==
    /\ jwtCase.stage = "idle"
    /\ jwtCase' = [jwtCase EXCEPT !.stage = "issued",
                                  !.user = user,
                                  !.secret = secret,
                                  !.token = GenerateToken(user, secret, now),
                                  !.issuedAt = now]
    /\ UNCHANGED <<storeVars, tokens, now, request, resp, slugInput, slugTrace, inflight,
                   editing>>

CheckToken(secret) ==
    /\ jwtCase.stage = "issued"
    /\ jwtCase' = [jwtCase EXCEPT !.stage = "checked",
                                  !.checkedWith = secret,
                                  !.checkedAt = now,
                                  !.result = ValidateToken(jwtCase.token, secret, now)]
    /\ UNCHANGED <<storeVars, tokens, now, request, resp, slugInput, slugTrace, inflight,
                   editing>>

Tick(t) ==
    /\ t > now
    /\ now' = t
    /\ UNCHANGED <<storeVars, tokens, request, resp, slugInput, slugTrace, jwtCase,
                 inflight, editing>>

InitToken ==
    /\ EmptyStore
    /\ tokens = {}
    /\ now \in {t \in Instants : t <= MaxOffset}
    /\ request = NoRequest
    /\ resp = NoResponse
    /\ jwtCase = NoJwtCase
    /\ inflight = NoneInFlight
    /\ editing = NoneEditing
    /\ slugInput = <<>>
    /\ slugTrace = <<>>

NextToken ==
    \/ \E user \in TokenUsers, secret \in Secrets : IssueToken(user, secret)
    \/ \E secret \in Secrets : CheckToken(secret)
    \/ \E t \in Instants : Tick(t)

SpecToken == InitToken /\ [][NextToken]_vars

(***************************************************************************)
(* The read handlers: the ids of the posts each one returns.               *)
(***************************************************************************)
GetPostByID(id) ==
    IF Live(posts, id) /\ posts[id].status = "published" THEN {id} ELSE {}

GetPostBySlug(slug) == {id \in LiveIDs(posts) : posts[id].slug = slug}

GetAllPosts(status) ==
    {id \in LiveIDs(posts) :
        posts[id].status = IF status # "" THEN status ELSE "published"}

GetOwnPosts(userID) == {id \in LiveIDs(posts) : posts[id].author_id = userID}

GetPostsByUserID(userID) ==
    {id \in LiveIDs(posts) :
        posts[id].author_id = userID /\ posts[id].status = "published"}

GetPostsByCategory(categoryID) ==
    IF ~Live(categories, categoryID) THEN {}
    ELSE {id \in LiveIDs(posts) :
             <<id, categoryID>> \in post_categories /\ posts[id].status = "published"}

\* the posts some read returns
ReturnedPosts ==
    {id \in DOMAIN posts :
        \/ id \in GetPostByID(id)
        \/ id \in GetPostBySlug(posts[id].slug)
        \/ id \in GetAllPosts(posts[id].status)
        \/ id \in GetOwnPosts(posts[id].author_id)
        \/ id \in GetPostsByUserID(posts[id].author_id)
        \/ \E c \in DOMAIN categories : id \in GetPostsByCategory(c)}

(***************************************************************************)
(* Spec: the handlers of accounts, posts and comments, on a store that     *)
(* starts with one administrator account (no request can create one:       *)
(* Register stores the role "user").  Time stands still, so no token       *)
(* expires.                                                                *)
(***************************************************************************)
Root ==
    [id |-> 1, username |-> "root", email |-> "root@blog",
     password |-> HashPassword("rootpw"), first_name |-> "", last_name |-> "",
     role |-> "admin", deleted |-> FALSE]

SeededStore ==
    /\ users = (1 :> Root)
    /\ posts = <<>>
    /\ categories = <<>>
    /\ comments = <<>>
    /\ post_categories = {}

\* a token signed with a key that is not the server's
ForgedToken ==
    GenerateToken([id |-> 1, username |-> "root", email |-> "root@blog",
                   role |-> "admin"], OtherSecret, 0)

\* the Authorization headers a request may carry
Headers == {NoHeader} \cup {Bearer(t) : t \in tokens}

\* the same, with a token the server did not sign
HeadersAndForged == Headers \cup {Bearer(ForgedToken)}

\* the 8 characters taken from a fresh UUID: two of the values it may have
Suffixes == {[i \in 1..SuffixLen |-> c] : c \in {"1", "a"}}

OneSuffix == {[i \in 1..SuffixLen |-> "1"]}

\* a path parameter: the id of a row or an id no row has
PathIDs(table) == DOMAIN table \cup {NewID(table)}

\* the same, or no UUID at all
PathParams(table) == PathIDs(table) \cup {-1}

RegisterInputs ==
    {[username |-> "alice", email |-> "alice@blog", password |-> "alicepw",
      first_name |-> "", last_name |-> ""],
     [username |-> "", email |-> "", password |-> "", first_name |-> "",
      last_name |-> ""]}

LoginInputs ==
    {[username |-> "root", password |-> "rootpw"],
     [username |-> "alice", password |-> "alicepw"],
     [username |-> "alice", password |-> "guess"]}

NoUpdate ==
    [first_name |-> "", last_name |-> "", email |-> "", password |-> "", role |-> ""]

UserInputs == {[NoUpdate EXCEPT !.first_name = "Al"]}

PostInput(title, slug, status, category_ids) ==
    [title |-> title, content |-> "text", slug |-> slug, status |-> status,
     category_ids |-> category_ids]

PostInputs == {PostInput(<<"a">>, <<>>, st, {}) : st \in {"", "published"}}

CommentInputs ==
    {[content |-> "nice", parent_id |-> p] : p \in {NoID} \cup DOMAIN comments}

Init ==
    /\ SeededStore
    /\ tokens = {}
    /\ now = 0
    /\ request = NoRequest
    /\ resp = NoResponse
    /\ jwtCase = NoJwtCase
    /\ inflight = NoneInFlight
    /\ editing = NoneEditing
    /\ slugInput = <<>>
    /\ slugTrace = <<>>

Next ==
    \/ \E req \in RegisterInputs : Register(req)
    \/ \E req \in LoginInputs : Login(req)
    \/ \E h \in Headers, id \in PathIDs(users), data \in UserInputs :
           UpdateUser(h, id, data)
    \/ \E h \in Headers, id \in PathIDs(users) : DeleteUser(h, id)
    \/ \E h \in Headers, req \in PostInputs, random \in OneSuffix :
           Cardinality(DOMAIN posts) < MaxPosts /\ CreatePost(h, req, random)
    \/ \E h \in Headers, id \in PathIDs(posts), req \in PostInputs, random \in OneSuffix :
           UpdatePost(h, id, req, random)
    \/ \E h \in Headers, id \in PathIDs(posts) : DeletePost(h, id)
    \/ \E h \in Headers, id \in PathIDs(posts), req \in CommentInputs :
           Cardinality(DOMAIN comments) < MaxComments /\ CreateComment(h, id, req)
    \/ \E h \in Headers, id \in PathIDs(comments), req \in CommentInputs :
           UpdateComment(h, id, req)
    \/ \E h \in Headers, id \in PathIDs(comments) : DeleteComment(h, id)

Spec == Init /\ [][Next]_vars

(***************************************************************************)
(* Claims about the slug generator (checked under SpecSlug).               *)
(***************************************************************************)
SlugChars == LowerLetters \cup Digits \cup {"-"}

CharsOf(s) == {s[i] : i \in 1..Len(s)}

\* C7: every result of the slug generator is made only of characters in
\* [a-z0-9-] (whitespace of every kind has become a hyphen, everything else
\* outside letters, digits and hyphen is gone).
C7_OnlySlugCharacters ==
    \A i \in 1..Len(slugTrace) : CharsOf(slugTrace[i]) \subseteq SlugChars

\* C8: the slug generator is idempotent: applied to its own result, it
\* returns that result.
C8_Idempotent ==
    \A i \in 2..Len(slugTrace) : slugTrace[i] = slugTrace[i - 1]

\* the generator changed the input and was then applied to its result
C8_Witness ==
    /\ Len(slugTrace) >= 2
    /\ slugTrace[1] # slugInput
    /\ slugTrace[1] # <<>>

\* C9: no result of the slug generator has two consecutive hyphens, or a
\* hyphen at its beginning or its end.
C9_HyphensNormalised ==
    \A i \in 1..Len(slugTrace) :
        LET s == slugTrace[i]
        IN  /\ ~ContainsDoubleHyphen(s)
            /\ s # <<>> => s[1] # "-" /\ s[Len(s)] # "-"

\* an input with a hyphen at an end and hyphens brought together inside
C9_Witness ==
    /\ Len(slugTrace) >= 1
    /\ Len(slugInput) >= 4
    /\ slugInput[1] \in {"-", " "}
    /\ \E i \in 2..(Len(slugInput) - 1) :
           slugInput[i] \in {"-", " "} /\ slugInput[i + 1] \in {"-", " "}
    /\ slugTrace[1] # <<>>

(***************************************************************************)
(* Claims about the token service (checked under SpecToken).               *)
(***************************************************************************)
\* C10: a token validated with the key it was signed with, at once (before
\* a second has passed), is accepted, and the claims returned carry the
\* user's ID, username, email and role.
C10_RoundTrip ==
    (/\ jwtCase.stage = "checked"
     /\ jwtCase.checkedWith = jwtCase.secret
     /\ jwtCase.checkedAt - jwtCase.issuedAt < TicksPerSecond)
    => /\ jwtCase.result.ok
       /\ jwtCase.result.claims.user_id = jwtCase.user.id
       /\ jwtCase.result.claims.username = jwtCase.user.username
       /\ jwtCase.result.claims.email = jwtCase.user.email
       /\ jwtCase.result.claims.role = jwtCase.user.role

\* an admin's token, issued off the second and validated at once
C10_Witness ==
    /\ jwtCase.stage = "checked"
    /\ jwtCase.checkedWith = jwtCase.secret
    /\ jwtCase.checkedAt = jwtCase.issuedAt
    /\ jwtCase.issuedAt % TicksPerSecond # 0
    /\ jwtCase.user.role = "admin"
    /\ jwtCase.result.ok


(***************************************************************************)
(* SpecCategories: the category handlers, with an administrator, one       *)
(* ordinary user and a post that can carry the category.                   *)
(***************************************************************************)
CategoryInputs ==
    {[name |-> n, slug |-> <<>>] : n \in {<<"a">>, <<"1">>, <<>>}}

TaggedPostInputs == {PostInput(<<"a">>, <<>>, "published", {1})}

NextCategories ==
    \/ \E req \in RegisterInputs : Register(req)
    \/ \E req \in LoginInputs : Login(req)
    \/ \E h \in Headers, req \in TaggedPostInputs, random \in OneSuffix :
           Cardinality(DOMAIN posts) < MaxPosts /\ CreatePost(h, req, random)
    \/ \E h \in HeadersAndForged, req \in CategoryInputs, random \in OneSuffix :
           Cardinality(DOMAIN categories) < MaxCategories
               /\ CreateCategory(h, req, random)
    \/ \E h \in HeadersAndForged, id \in PathParams(categories),
          req \in CategoryInputs, random \in OneSuffix :
           UpdateCategory(h, id, req, random)
    \/ \E h \in HeadersAndForged, id \in PathParams(categories) :
           DeleteCategory(h, id)

SpecCategories == Init /\ [][NextCategories]_vars

(***************************************************************************)
(* SpecUsers: profile updates by the administrator and by one ordinary     *)
(* user, with every field of the update in play.                           *)
(***************************************************************************)
ProfileInputs ==
    {[first_name |-> "Al", last_name |-> "Li", email |-> "al@blog",
      password |-> "newpw", role |-> "admin"],
     [NoUpdate EXCEPT !.first_name = "Al", !.email = "root@blog", !.role = "admin"]}

NextUsers ==
    \/ \E req \in RegisterInputs : Register(req)
    \/ \E req \in LoginInputs : Cardinality(tokens) < MaxTokens /\ Login(req)
    \/ \E h \in Headers, id \in PathIDs(users), data \in ProfileInputs :
           UpdateUser(h, id, data)
    \/ \E h \in Headers, id \in PathIDs(users) : DeleteUser(h, id)

SpecUsers == Init /\ [][NextUsers]_vars

(***************************************************************************)
(* SpecPosts: one author creating, retitling and deleting posts whose      *)
(* titles give the same slug.                                              *)
(***************************************************************************)
SlugPostInputs == {PostInput(t, <<>>, "", {}) : t \in {<<"a">>, <<"A">>, <<"1">>}}

AuthorLogins == {[username |-> "root", password |-> "rootpw"]}

NextPosts ==
    \/ \E req \in AuthorLogins : Login(req)
    \/ \E h \in Headers, req \in SlugPostInputs, random \in Suffixes :
           Cardinality(DOMAIN posts) < MaxSlugPosts /\ CreatePost(h, req, random)
    \/ \E h \in Headers, id \in PathIDs(posts), req \in SlugPostInputs,
          random \in Suffixes :
           UpdatePost(h, id, req, random)
    \/ \E h \in Headers, id \in PathIDs(posts) : DeletePost(h, id)

SpecPosts == Init /\ [][NextPosts]_vars

(***************************************************************************)
(* SpecGate: the protected routes behind AuthMiddleware while time passes: *)
(* the administrator logs in, the clock moves up to and past the expiry of *)
(* the token, and requests arrive with every form of Authorization header. *)
(***************************************************************************)
\* instants around the issue of a token and around its expiry
GateInstants ==
    {t \in {d * TokenTTL + o : d \in 0..1, o \in (0 - MaxDrift)..MaxDrift} : t >= 0}

\* the forms of the Authorization header: absent, one part only, another
\* scheme, no token at all, a token signed with another key, and the tokens
\* the server issued (expired or not)
HeaderForms ==
    {NoHeader, <<"Bearer">>, Bearer(Garbage), Bearer(ForgedToken)}
        \cup {Bearer(t) : t \in tokens}
        \cup {Basic(t) : t \in tokens}

GatePostInputs == {PostInput(<<"a">>, <<>>, "published", {})}

GateCommentInputs == {[content |-> "nice", parent_id |-> NoID]}

GateUserInputs == {NoUpdate}

GateCategoryInputs == {[name |-> <<"a">>, slug |-> <<>>]}

NextGate ==
    \/ \E req \in AuthorLogins :
           Cardinality(tokens) < MaxSessions /\ Login(req)
    \/ \E t \in GateInstants : Tick(t)
    \/ \E h \in HeaderForms, req \in GatePostInputs, random \in OneSuffix :
           Cardinality(DOMAIN posts) < MaxPosts /\ CreatePost(h, req, random)
    \/ \E h \in HeaderForms, id \in DOMAIN posts : DeletePost(h, id)
    \/ \E h \in HeaderForms, req \in GateCategoryInputs, random \in OneSuffix :
           Cardinality(DOMAIN categories) < MaxCategories
               /\ CreateCategory(h, req, random)
    \/ \E h \in HeaderForms, id \in DOMAIN posts, req \in GateCommentInputs :
           Cardinality(DOMAIN comments) < MaxComments /\ CreateComment(h, id, req)
    \/ \E h \in HeaderForms, id \in DOMAIN users, data \in GateUserInputs :
           UpdateUser(h, id, data)
    \/ \E h \in HeaderForms, id \in DOMAIN posts, req \in GatePostInputs,
          random \in OneSuffix :
           UpdatePost(h, id, req, random)
    \/ \E h \in HeaderForms, id \in DOMAIN categories, req \in GateCategoryInputs,
          random \in OneSuffix :
           UpdateCategory(h, id, req, random)
    \/ \E h \in HeaderForms, id \in DOMAIN categories : DeleteCategory(h, id)
    \/ \E h \in HeaderForms, id \in DOMAIN comments, req \in GateCommentInputs :
           UpdateComment(h, id, req)
    \/ \E h \in HeaderForms, id \in DOMAIN comments : DeleteComment(h, id)
    \/ \E h \in HeaderForms, id \in DOMAIN users : DeleteUser(h, id)

SpecGate == Init /\ [][NextGate]_vars

(***************************************************************************)
(* SpecThreads: comments and replies on two posts, published or draft.     *)
(***************************************************************************)
\* a reply names a stored comment or an id no comment has
ThreadCommentInputs ==
    {[content |-> "nice", parent_id |-> p] :
        p \in {NoID} \cup DOMAIN comments \cup {NewID(comments)}}

ThreadPostInputs ==
    {PostInput(<<"a">>, <<>>, status, {}) : status \in {"draft", "published"}}

NextThreads ==
    \/ \E req \in AuthorLogins :
           Cardinality(tokens) < MaxSessions /\ Login(req)
    \/ \E h \in Headers, req \in ThreadPostInputs, random \in OneSuffix :
           Cardinality(DOMAIN posts) < MaxThreadPosts /\ CreatePost(h, req, random)
    \/ \E h \in Headers, id \in PathIDs(posts), req \in ThreadCommentInputs :
           Cardinality(DOMAIN comments) < MaxThreadComments
               /\ CreateComment(h, id, req)
    \/ \E h \in Headers, id \in DOMAIN comments : DeleteComment(h, id)

SpecThreads == Init /\ [][NextThreads]_vars

(***************************************************************************)
(* SpecPublish: one post created and edited, as draft or published, while  *)
(* the clock moves.                                                        *)
(***************************************************************************)
PublishInstants == 1..MaxClock

PublishInputs ==
    {PostInput(<<"a">>, <<>>, status, {}) : status \in {"", "draft", "published"}}

NextPublish ==
    \/ \E req \in AuthorLogins :
           Cardinality(tokens) < MaxSessions /\ Login(req)
    \/ \E t \in PublishInstants : Tick(t)
    \/ \E h \in Headers, req \in PublishInputs, random \in OneSuffix :
           Cardinality(DOMAIN posts) < MaxPosts /\ CreatePost(h, req, random)
    \/ \E h \in Headers, id \in PathIDs(posts), req \in PublishInputs,
          random \in OneSuffix :
           UpdatePost(h, id, req, random)

SpecPublish == Init /\ [][NextPublish]_vars

(***************************************************************************)
(* SpecRace: at most two CreatePost requests of one author in flight       *)
(* together, beside the author creating a post in one piece while none is  *)
(* in flight, and deleting posts.                                          *)
(***************************************************************************)
RaceInputs == {PostInput(t, <<>>, "", {}) : t \in {<<"a">>, <<"A">>}}

NextRace ==
    \/ \E req \in AuthorLogins : Cardinality(tokens) < MaxSessions /\ Login(req)
    \/ \E h \in Headers, req \in RaceInputs, random \in Suffixes :
           /\ Cardinality(DOMAIN posts) < MaxRacePosts
           /\ \A r \in Racers : inflight[r].stage # "checked"
           /\ CreatePost(h, req, random)
    \/ \E h \in Headers, id \in PathIDs(posts) : DeletePost(h, id)
    \/ \E r \in Racers, h \in Headers, req \in RaceInputs, random \in Suffixes :
           CreatePostCheck(r, h, req, random)
    \/ \E r \in Racers : CreatePostInsert(r)

SpecRace == Init /\ [][NextRace]_vars

(***************************************************************************)
(* SpecTags: the administrator creating and deleting categories, and       *)
(* creating and updating a post with lists of category ids, some of which  *)
(* no category has.                                                        *)
(***************************************************************************)
TagInputs == {[name |-> n, slug |-> <<>>] : n \in {<<"a">>, <<"1">>}}

\* category ids of a request: MaxTagCategories + 1 is the id of no category
TagLists == {{}, {1, 2}, {1, MaxTagCategories + 1}, {MaxTagCategories + 1}}

TaggingInputs == {PostInput(<<"a">>, <<>>, "", ids) : ids \in TagLists}

NextTags ==
    \/ \E req \in AuthorLogins : Cardinality(tokens) < MaxSessions /\ Login(req)
    \/ \E h \in Headers, req \in TagInputs, random \in OneSuffix :
           Cardinality(DOMAIN categories) < MaxTagCategories
               /\ CreateCategory(h, req, random)
    \/ \E h \in Headers, id \in PathIDs(categories) : DeleteCategory(h, id)
    \/ \E h \in Headers, req \in TaggingInputs, random \in OneSuffix :
           Cardinality(DOMAIN posts) < MaxTagPosts /\ CreatePost(h, req, random)
    \/ \E h \in Headers, id \in PathIDs(posts), req \in TaggingInputs,
          random \in OneSuffix :
           UpdatePost(h, id, req, random)

SpecTags == Init /\ [][NextTags]_vars

(***************************************************************************)
(* SpecStale: the administrator logs in, has the role and the email of the *)
(* account changed, and goes on sending the token issued before the        *)
(* change, to the routes of the administrator too, while time passes.      *)
(***************************************************************************)
StaleInputs ==
    {[NoUpdate EXCEPT !.role = "user", !.email = "new@blog"],
     [NoUpdate EXCEPT !.role = "admin"]}

NextStale ==
    \/ \E req \in AuthorLogins : Cardinality(tokens) < MaxStaleTokens /\ Login(req)
    \/ \E t \in GateInstants : Tick(t)
    \/ \E h \in Headers, id \in DOMAIN users, data \in StaleInputs :
           UpdateUser(h, id, data)
    \/ \E h \in Headers, req \in GateCategoryInputs, random \in OneSuffix :
           Cardinality(DOMAIN categories) < MaxCategories
               /\ CreateCategory(h, req, random)
    \/ \E h \in Headers, id \in DOMAIN categories : DeleteCategory(h, id)

SpecStale == Init /\ [][NextStale]_vars

(***************************************************************************)
(* SpecReplies: SpecThreads with the comments edited as well.              *)
(***************************************************************************)
NextReplies ==
    \/ NextThreads
    \/ \E h \in Headers, id \in DOMAIN comments, req \in ThreadCommentInputs :
           UpdateComment(h, id, req)

SpecReplies == Init /\ [][NextReplies]_vars

(***************************************************************************)
(* SpecEdit: at most two UpdatePost requests on one post under way         *)
(* together, while the clock moves.                                        *)
(***************************************************************************)
NextEdit ==
    \/ \E req \in AuthorLogins : Cardinality(tokens) < MaxSessions /\ Login(req)
    \/ \E t \in PublishInstants : Tick(t)
    \/ \E h \in Headers, req \in PublishInputs, random \in OneSuffix :
           Cardinality(DOMAIN posts) < MaxPosts /\ CreatePost(h, req, random)
    \/ \E r \in Racers, h \in Headers, id \in PathIDs(posts), req \in PublishInputs :
           UpdatePostLoad(r, h, id, req)
    \/ \E r \in Racers, random \in OneSuffix : UpdatePostSave(r, random)
    \/ \E r \in Racers : UpdatePostReply(r)

SpecEdit == Init /\ [][NextEdit]_vars

(***************************************************************************)
(* SpecTagRace: the administrator deletes a category while UpdatePost      *)
(* requests naming it are under way.                                       *)
(***************************************************************************)
NextTagRace ==
    \/ \E req \in AuthorLogins : Cardinality(tokens) < MaxSessions /\ Login(req)
    \/ \E h \in Headers, req \in GateCategoryInputs, random \in OneSuffix :
           Cardinality(DOMAIN categories) < MaxCategories
               /\ CreateCategory(h, req, random)
    \/ \E h \in Headers, id \in DOMAIN categories : DeleteCategory(h, id)
    \/ \E h \in Headers, req \in TaggedPostInputs, random \in OneSuffix :
           Cardinality(DOMAIN posts) < MaxPosts /\ CreatePost(h, req, random)
    \/ \E r \in Racers, h \in Headers, id \in DOMAIN posts, req \in TaggedPostInputs :
           UpdatePostLoad(r, h, id, req)
    \/ \E r \in Racers, random \in OneSuffix : UpdatePostSave(r, random)
    \/ \E r \in Racers : UpdatePostLookup(r)
    \/ \E r \in Racers : UpdatePostAppend(r)
    \/ \E r \in Racers : UpdatePostReply(r)

SpecTagRace == Init /\ [][NextTagRace]_vars

(***************************************************************************)
(* SpecCommons: the account handlers from a store without any user, so     *)
(* without an administrator.                                               *)
(***************************************************************************)
InitCommons ==
    /\ EmptyStore
    /\ tokens = {}
    /\ now = 0
    /\ request = NoRequest
    /\ resp = NoResponse
    /\ jwtCase = NoJwtCase
    /\ inflight = NoneInFlight
    /\ editing = NoneEditing
    /\ slugInput = <<>>
    /\ slugTrace = <<>>

SpecCommons == InitCommons /\ [][NextUsers]_vars

(***************************************************************************)
(* Who may change what                                                     *)
(***************************************************************************)

\* the last request passed the middleware, which attached the caller's identity
Authenticated == request.userID # NoID

IsAdmin == request.role = "admin"

PostWrites == {"UpdatePost", "DeletePost"}
CommentWrites == {"UpdateComment", "DeleteComment"}
UserWrites == {"UpdateUser", "DeleteUser"}

Denied == resp.code = 403

\* C1: UpdatePost, DeletePost, UpdateComment, DeleteComment, UpdateUser and
\* DeleteUser on an existing resource are refused with 403 exactly when the
\* caller is neither an admin nor the owner of the resource (the author of
\* the post or comment, the user itself).
C1_OwnerOrAdmin ==
    [][/\ (request'.op \in PostWrites /\ Authenticated' /\ Live(posts, request'.id))
            => (Denied' <=> ~(IsAdmin' \/ request'.userID = posts[request'.id].author_id))
       /\ (request'.op \in CommentWrites /\ Authenticated' /\ Live(comments, request'.id))
            => (Denied' <=> ~(IsAdmin' \/ request'.userID = comments[request'.id].author_id))
       /\ (request'.op \in UserWrites /\ Authenticated' /\ Live(users, request'.id))
            => (Denied' <=> ~(IsAdmin' \/ request'.userID = request'.id))
      ]_vars

\* an admin has just updated a comment that another user wrote
C1_Witness ==
    /\ request.op = "UpdateComment"
    /\ resp.code = 200
    /\ IsAdmin
    /\ Live(comments, request.id)
    /\ comments[request.id].author_id # request.userID

\* C2: a write by a caller who is neither the owner nor an admin is refused
\* and leaves every table as it was; DeletePost by an admin on an existing
\* post answers 200 and afterwards no read returns the post.
C2_DeniedChangesNothing ==
    [][/\ (request'.op \in PostWrites /\ Authenticated' /\ Live(posts, request'.id)
             /\ ~IsAdmin' /\ request'.userID # posts[request'.id].author_id)
            => (Denied' /\ UNCHANGED storeVars)
       /\ (request'.op \in CommentWrites /\ Authenticated' /\ Live(comments, request'.id)
             /\ ~IsAdmin' /\ request'.userID # comments[request'.id].author_id)
            => (Denied' /\ UNCHANGED storeVars)
       /\ (request'.op \in UserWrites /\ Authenticated' /\ Live(users, request'.id)
             /\ ~IsAdmin' /\ request'.userID # request'.id)
            => (Denied' /\ UNCHANGED storeVars)
       /\ (request'.op = "DeletePost" /\ IsAdmin' /\ Live(posts, request'.id))
            => (resp'.code = 200 /\ request'.id \notin ReturnedPosts')
      ]_vars

\* an admin has just deleted a post that another user wrote
C2_Witness ==
    /\ request.op = "DeletePost"
    /\ resp.code = 200
    /\ IsAdmin
    /\ request.id \in DOMAIN posts
    /\ posts[request.id].deleted
    /\ posts[request.id].author_id # request.userID
    /\ request.id \notin ReturnedPosts


CategoryWrites == {"CreateCategory", "UpdateCategory", "DeleteCategory"}

\* C3: a CreateCategory, UpdateCategory or DeleteCategory request whose caller
\* is not an admin (another role, or no valid token at all) is refused with
\* 403 or 401 and changes no category and no post-category association; so a
\* category request that changes them comes from an admin.
C3_CategoriesAdminOnly ==
    [][request'.op \in CategoryWrites =>
          /\ ~IsAdmin' => (/\ resp'.code = IF Authenticated' THEN 403 ELSE 401
                           /\ UNCHANGED storeVars)
          /\ <<categories, post_categories>>' # <<categories, post_categories>>
                => IsAdmin'
      ]_vars

\* an ordinary user has just been refused the deletion of a category that a
\* post carries
C3_Witness ==
    /\ request.op = "DeleteCategory"
    /\ resp.code = 403
    /\ request.role = "user"
    /\ Live(categories, request.id)
    /\ \E pc \in post_categories : pc[2] = request.id

(***************************************************************************)
(* The role in a profile update                                            *)
(***************************************************************************)

\* the e-mail of the update is stored for another account, deleted or not
EmailHeldByOther(email, id) ==
    email # "" /\ \E o \in DOMAIN users : o # id /\ users[o].email = email

\* the fields of the update other than the role, as the stored row shows them
OtherFieldsApplied(before, after, data) ==
    /\ after.first_name = IF data.first_name # "" THEN data.first_name
                          ELSE before.first_name
    /\ after.last_name = IF data.last_name # "" THEN data.last_name
                         ELSE before.last_name
    /\ after.email = IF data.email # "" THEN data.email ELSE before.email
    /\ IF data.password # "" THEN CheckPasswordHash(data.password, after.password)
       ELSE after.password = before.password

\* a role is changed only by a request whose caller is an admin
OnlyAdminChangesRole ==
    \A id \in DOMAIN users :
        users'[id].role # users[id].role
            => (request'.op = "UpdateUser" /\ IsAdmin')

\* C4 as stated: every UpdateUser with a role value that a non-admin sends
\* for their own record answers 200, leaves the role and applies the other
\* fields.
C4_AsStated ==
    [][/\ \A t \in tokens, data \in ProfileInputs :
            LET auth == AuthMiddleware(Bearer(t), now)
            IN  (/\ auth.ok /\ auth.role # "admin" /\ data.role # ""
                 /\ Live(users, auth.userID)
                 /\ UpdateUser(Bearer(t), auth.userID, data))
                => /\ resp'.code = 200
                   /\ users'[auth.userID].role = users[auth.userID].role
                   /\ OtherFieldsApplied(users[auth.userID], users'[auth.userID], data)
       /\ OnlyAdminChangesRole
      ]_vars

\* C4: an UpdateUser with a role value that a non-admin sends for their own
\* record answers 200, leaves the stored role and applies first name, last
\* name, e-mail and password, unless the e-mail given is stored for another
\* account: then the request is refused (400, or 500 from the unique index)
\* and the record is unchanged.  Only an admin's request changes a role.
C4_RoleIgnored ==
    [][/\ \A t \in tokens, data \in ProfileInputs :
            LET auth == AuthMiddleware(Bearer(t), now)
            IN  (/\ auth.ok /\ auth.role # "admin" /\ data.role # ""
                 /\ Live(users, auth.userID)
                 /\ UpdateUser(Bearer(t), auth.userID, data))
                => IF EmailHeldByOther(data.email, auth.userID)
                   THEN resp'.code \in {400, 500} /\ UNCHANGED users
                   ELSE /\ resp'.code = 200
                        /\ users'[auth.userID].role = users[auth.userID].role
                        /\ OtherFieldsApplied(users[auth.userID],
                                              users'[auth.userID], data)
                        /\ \A o \in DOMAIN users \ {auth.userID} :
                               users'[o] = users[o]
       /\ OnlyAdminChangesRole
      ]_vars

\* an ordinary user asked for the admin role along with new names, e-mail and
\* password: the answer was 200, the new values are stored, the role is not
C4_Witness ==
    /\ request.op = "UpdateUser"
    /\ resp.code = 200
    /\ request.role = "user"
    /\ request.id = request.userID
    /\ users[request.id].role = "user"
    /\ users[request.id].first_name = "Al"
    /\ users[request.id].email = "al@blog"
    /\ CheckPasswordHash("newpw", users[request.id].password)

(***************************************************************************)
(* Slugs of stored posts                                                   *)
(***************************************************************************)

\* C5: no two rows of the posts table, soft-deleted rows included, have the
\* same slug.
C5_SlugUnique ==
    \A i, j \in DOMAIN posts : i # j => posts[i].slug # posts[j].slug

\* a soft-deleted post and a live one are stored, the slug of one being the
\* slug of the other with a suffix
C5_Witness ==
    \E i, j \in DOMAIN posts :
        /\ posts[i].deleted /\ ~posts[j].deleted
        /\ \E random \in Suffixes :
              \/ posts[j].slug = WithSuffix(posts[i].slug, random)
              \/ posts[i].slug = WithSuffix(posts[j].slug, random)

HexDigits == {"0", "1", "2", "3", "4", "5", "6", "7", "8", "9",
              "a", "b", "c", "d", "e", "f"}

\* base, a hyphen, and 8 hexadecimal characters
IsSuffixed(slug, base) ==
    /\ Len(slug) = Len(base) + 1 + SuffixLen
    /\ SubSeq(slug, 1, Len(base)) = base
    /\ slug[Len(base) + 1] = "-"
    /\ \A i \in Len(base) + 2 .. Len(slug) : slug[i] \in HexDigits

\* C6: a CreatePost (a CreateCategory) whose slugified title is the slug of a
\* stored post (category) stores a new row whose slug is that base slug, a
\* hyphen and 8 hexadecimal characters.
C6_SecondSlugSuffixed ==
    [][/\ \A t \in tokens, req \in SlugPostInputs, random \in Suffixes :
            (/\ AuthMiddleware(Bearer(t), now).ok
             /\ \E id \in DOMAIN posts : posts[id].slug = CreatedPostBase(req)
             /\ CreatePost(Bearer(t), req, random))
            => \E id \in DOMAIN posts' \ DOMAIN posts :
                   IsSuffixed(posts'[id].slug, CreatedPostBase(req))
       /\ \A t \in tokens, req \in CategoryInputs, random \in Suffixes :
            (/\ AuthMiddleware(Bearer(t), now).ok
             /\ AuthMiddleware(Bearer(t), now).role = "admin"
             /\ req.name # <<>>
             /\ \E id \in DOMAIN categories :
                    categories[id].slug = CreatedCategoryBase(req)
             /\ CreateCategory(Bearer(t), req, random))
            => \E id \in DOMAIN categories' \ DOMAIN categories :
                   IsSuffixed(categories'[id].slug, CreatedCategoryBase(req))
      ]_vars


(***************************************************************************)
(* The gate in front of the protected routes                               *)
(***************************************************************************)
ProtectedWrites ==
    PostWrites \cup CommentWrites \cup UserWrites \cup CategoryWrites
        \cup {"CreatePost", "CreateComment"}

\* the last request carried "Bearer" and one more part
CarriesToken == Len(request.header) = 2 /\ request.header[1] = "Bearer"

CarriedToken == request.header[2]

\* the step is a request being served (the clock stands still meanwhile)
Served == now' = now

\* stopped by the middleware: 401, no identity on the context, no table changed
Aborted == resp'.code = 401 /\ ~Authenticated' /\ UNCHANGED storeVars

\* C11: a token expires 24 hours after its issued-at; ValidateToken refuses
\* every issued token whose expiry is at or before the present instant, and a
\* request to a protected route that carries such a token is answered 401 by
\* the middleware, without identity and without any change to the store.
C11_ExpiredRejected ==
    /\ [](\A t \in tokens :
             /\ t.claims.exp = t.claims.iat + TokenTTL
             /\ t.claims.exp <= now => ~ValidateToken(t, JWTSecret, now).ok)
    /\ [][(/\ Served
           /\ request'.op \in ProtectedWrites
           /\ CarriesToken'
           /\ CarriedToken'.claims.exp <= now)
          => Aborted]_vars

\* a token the server issued was presented for DeletePost of a stored post
\* at the very instant of its expiry, and the answer was 401
C11_Witness ==
    /\ request.op = "DeletePost"
    /\ CarriesToken
    /\ CarriedToken \in tokens
    /\ CarriedToken.claims.exp = now
    /\ Live(posts, request.id)
    /\ resp.code = 401


(***************************************************************************)
(* Comments                                                                *)
(***************************************************************************)

\* the parent named by the request is no stored (live) comment, or is a
\* comment on another post
BadParent(req, postID) ==
    /\ req.parent_id # NoID
    /\ \/ ~Live(comments, req.parent_id)
       \/ comments[req.parent_id].post_id # postID

\* C12: CreateComment on a published post with a parent id that no live
\* comment has, or that is a comment on another post, is answered 400 and
\* stores nothing: comments and every other table are unchanged.
C12_BadParentRejected ==
    [][\A t \in tokens, postID \in DOMAIN posts, req \in ThreadCommentInputs :
          (/\ AuthMiddleware(Bearer(t), now).ok
           /\ Live(posts, postID)
           /\ posts[postID].status = "published"
           /\ BadParent(req, postID)
           /\ CreateComment(Bearer(t), postID, req))
          => (resp'.code = 400 /\ UNCHANGED storeVars)
      ]_vars

\* a reply to a comment of another post has just been refused
C12_Witness ==
    /\ request.op = "CreateComment"
    /\ resp.code = 400
    /\ resp.error = "parent comment does not belong to the same post"
    /\ Live(posts, request.id)
    /\ \E c \in LiveIDs(comments) : comments[c].post_id # request.id

\* C13: CreateComment on a stored post whose status is not "published" is
\* refused (400) and stores nothing.
C13_DraftNotCommentable ==
    [][(/\ request'.op = "CreateComment"
        /\ Authenticated'
        /\ Live(posts, request'.id)
        /\ posts[request'.id].status # "published")
       => (resp'.code = 400 /\ UNCHANGED storeVars)
      ]_vars

\* a comment on a draft has just been refused
C13_Witness ==
    /\ request.op = "CreateComment"
    /\ Authenticated
    /\ Live(posts, request.id)
    /\ posts[request.id].status = "draft"
    /\ resp.code = 400
    /\ resp.error = "cannot comment on unpublished posts"


(***************************************************************************)
(* The publish timestamp                                                   *)
(***************************************************************************)

\* C14: a post has a publish timestamp once it has been published: the
\* timestamp is the instant of the request that first made the post
\* published (CreatePost with status published, or the first UpdatePost into
\* published), and no later request changes it, whether it keeps the post
\* published, takes it back to draft or publishes it again.
C14_PublishedOnce ==
    /\ [](\A id \in DOMAIN posts :
             /\ posts[id].status = "published" => posts[id].published_at # NoTime
             /\ posts[id].published_at <= now)
    /\ [][\A id \in DOMAIN posts' :
             IF id \in DOMAIN posts /\ posts[id].published_at # NoTime
             THEN posts'[id].published_at = posts[id].published_at
             ELSE posts'[id].published_at =
                      IF posts'[id].status = "published" THEN now ELSE NoTime
         ]_vars

\* a post published earlier has just been published again by UpdatePost, and
\* carries the earlier timestamp
C14_Witness ==
    /\ request.op = "UpdatePost"
    /\ resp.code = 200
    /\ Live(posts, request.id)
    /\ posts[request.id].status = "published"
    /\ posts[request.id].published_at # NoTime
    /\ posts[request.id].published_at < now


(***************************************************************************)
(* What the public reads return                                            *)
(***************************************************************************)

\* the values of the status query parameter of GetAllPosts
StatusFilters == {"", "draft", "published"}

\* the posts the routes that need no token return, for some parameters
PubliclyReturned ==
    {id \in DOMAIN posts :
        \/ id \in GetPostByID(id)
        \/ id \in GetPostBySlug(posts[id].slug)
        \/ \E status \in StatusFilters : id \in GetAllPosts(status)
        \/ id \in GetPostsByUserID(posts[id].author_id)
        \/ \E c \in DOMAIN categories : id \in GetPostsByCategory(c)}

\* C15: GetPostByID, GetPostBySlug, GetAllPosts, GetPostsByUserID and
\* GetPostsByCategory return no post whose status is not "published",
\* whatever their parameters; the lookups by id and by slug find nothing for
\* such a post.
C15_PublicReadsPublishedOnly ==
    \A id \in DOMAIN posts :
        posts[id].status # "published"
            => /\ id \notin PubliclyReturned
               /\ GetPostByID(id) = {}
               /\ GetPostBySlug(posts[id].slug) = {}


(***************************************************************************)
(* The users a response shows                                              *)
(***************************************************************************)

\* the zero value of models.User
ZeroUser ==
    [id |-> NoID, username |-> "", email |-> "", password |-> "",
     first_name |-> "", last_name |-> "", role |-> "", deleted |-> FALSE]

\* Preload("Author"), or First(&author): the live row, or nothing loaded
PreloadUser(id) == IF Live(users, id) THEN users[id] ELSE ZeroUser

\* a User as c.JSON writes it: Password is tagged json:"-" and is left out,
\* role is written as it stands
MarshalUser(user) ==
    [id |-> user.id, username |-> user.username, email |-> user.email,
     first_name |-> user.first_name, last_name |-> user.last_name,
     role |-> user.role, password |-> ""]

\* the users nested in the responses that carry posts or comments, for every
\* choice of parameters: the author of a post, the authors of its comments
ExposedUsers ==
    LET author(p) == PreloadUser(posts[p].author_id)
        commenter(c) == PreloadUser(comments[c].author_id)
        commentsOf(p) == {c \in LiveIDs(comments) : comments[c].post_id = p}
        \* post.Author.Password = "" and post.Author.Role = ""
        cleaned(user) == MarshalUser([user EXCEPT !.password = "", !.role = ""])
        \* only the password is emptied
        passwordOnly(user) == MarshalUser([user EXCEPT !.password = ""])
        detail(p) == {cleaned(author(p))}
                         \cup {passwordOnly(commenter(c)) : c \in commentsOf(p)}
        GetPostByIDUsers == UNION {detail(p) : p \in UNION {GetPostByID(i) : i \in DOMAIN posts}}
        GetPostBySlugUsers ==
            UNION {detail(p) : p \in UNION {GetPostBySlug(posts[i].slug) : i \in DOMAIN posts}}
        GetAllPostsUsers ==
            {cleaned(author(p)) : p \in UNION {GetAllPosts(st) : st \in StatusFilters}}
        GetPostsByUserIDUsers ==
            UNION {{cleaned(author(p))} \cup {MarshalUser(commenter(c)) : c \in commentsOf(p)} :
                      p \in UNION {GetPostsByUserID(u) : u \in DOMAIN users}}
        GetPostsByCategoryUsers ==
            {passwordOnly(author(p)) :
                p \in UNION {GetPostsByCategory(c) : c \in DOMAIN categories}}
        GetAllCommentsFromPostIdUsers ==
            {MarshalUser(commenter(c)) : c \in LiveIDs(comments)}
        CreatePostUsers ==
            IF request.op = "CreatePost" /\ resp.code = 201
            THEN {passwordOnly(PreloadUser(request.userID))} ELSE {}
        UpdatePostUsers ==
            IF request.op = "UpdatePost" /\ resp.code = 200
            THEN {cleaned(author(request.id))} ELSE {}
        UpdateCommentUsers ==
            IF request.op = "UpdateComment" /\ resp.code = 200
            THEN {cleaned(commenter(request.id))} ELSE {}
    IN  GetPostByIDUsers \cup GetPostBySlugUsers \cup GetAllPostsUsers
            \cup GetPostsByUserIDUsers \cup GetPostsByCategoryUsers
            \cup GetAllCommentsFromPostIdUsers \cup CreatePostUsers
            \cup UpdatePostUsers \cup UpdateCommentUsers

\* C16: every user shown inside a response that carries posts or comments (a
\* post's author, a comment's author) has an empty password and an empty
\* role.
C16_UsersStripped ==
    \A user \in ExposedUsers : user.password = "" /\ user.role = ""


\* the header of the last request is "Bearer" followed by a token the server
\* issued and that has not expired
GoodHeader ==
    /\ CarriesToken
    /\ CarriedToken \in tokens
    /\ now < CarriedToken.claims.exp

\* C17: a request to a protected route whose Authorization header is absent,
\* is not "Bearer" and one token, or carries a token that is not a valid token
\* of the server is answered 401 by the middleware: no table is changed and no
\* identity is attached.  Any other request passes, with the identity of the
\* token attached to it.
C17_GateBeforeHandlers ==
    [][(Served /\ request'.op \in ProtectedWrites)
       => IF GoodHeader'
          THEN /\ resp'.code # 401
               /\ request'.userID = CarriedToken'.claims.user_id
               /\ request'.username = CarriedToken'.claims.username
               /\ request'.email = CarriedToken'.claims.email
               /\ request'.role = CarriedToken'.claims.role
          ELSE /\ Aborted
               /\ request'.username = "" /\ request'.email = "" /\ request'.role = ""
      ]_vars

\* a valid token sent under another scheme has just been refused for the
\* deletion of a stored post
C17_Witness ==
    /\ request.op = "DeletePost"
    /\ Len(request.header) = 2
    /\ request.header[1] = "Basic"
    /\ request.header[2] \in tokens
    /\ now < request.header[2].claims.exp
    /\ Live(posts, request.id)
    /\ resp.code = 401

(***************************************************************************)
(* Two CreatePost requests at once                                         *)
(***************************************************************************)

\* two requests with one title both found the slug free before either of
\* them inserted, and both have been answered
Raced ==
    /\ \A r \in Racers :
          /\ inflight[r].stage = "done"
          /\ inflight[r].overlapped
          /\ inflight[r].slug = CreatedPostBase(inflight[r].req)
    /\ inflight[1].req.title = inflight[2].req.title

\* C18: when two concurrent CreatePost requests with the same title have both
\* passed the slug-existence check before either inserted, exactly one insert
\* succeeds and the other request is answered with the creation failure;
\* two posts with the same slug are never stored.
C18_OneRacerWins ==
    /\ Raced => \E w \in Racers :
                    /\ inflight[w].code = 201
                    /\ \A l \in Racers \ {w} : inflight[l].code = 500
    /\ \A i, j \in DOMAIN posts : i # j => posts[i].slug # posts[j].slug

(***************************************************************************)
(* Categories of a post                                                    *)
(***************************************************************************)

\* the categories a join table gives post id
CategoriesOf(joins, id) == {pc[2] : pc \in {x \in joins : x[1] = id}}

\* the request would be answered with this code
CreatePostGives(h, req, random, code) ==
    ENABLED (CreatePost(h, req, random) /\ resp'.code = code)

UpdatePostGives(h, id, req, random, code) ==
    ENABLED (UpdatePost(h, id, req, random) /\ resp'.code = code)

\* C19: whether CreatePost or UpdatePost succeeds does not depend on the
\* category ids of the request, and after a successful request that names
\* category ids the post is joined to exactly those of them that exist.
C19_ExistingCategoriesJoined ==
    /\ [](\A h \in Headers, req \in TaggingInputs, random \in OneSuffix,
             ids \in TagLists :
             LET other == [req EXCEPT !.category_ids = ids]
             IN  /\ CreatePostGives(h, req, random, 201)
                        <=> CreatePostGives(h, other, random, 201)
                 /\ \A id \in PathIDs(posts) :
                        UpdatePostGives(h, id, req, random, 200)
                            <=> UpdatePostGives(h, id, other, random, 200))
    /\ [][\A h \in Headers, req \in TaggingInputs, random \in OneSuffix :
             /\ CreatePost(h, req, random) /\ resp'.code = 201
                    => CategoriesOf(post_categories', NewID(posts)) =
                           req.category_ids \cap LiveIDs(categories)
             /\ \A id \in DOMAIN posts :
                    /\ UpdatePost(h, id, req, random)
                    /\ resp'.code = 200
                    /\ req.category_ids # {}
                    => CategoriesOf(post_categories', id) =
                           req.category_ids \cap LiveIDs(categories)]_vars

\* a post has just been created with a list of an existing category and an
\* id no category has, while a second category exists that was not requested
C19_Witness ==
    /\ resp.op = "CreatePost"
    /\ resp.code = 201
    /\ LiveIDs(categories) = {1, 2}
    /\ CategoriesOf(post_categories, NewID(posts) - 1) = {1}

(***************************************************************************)
(* Tokens and the stored user                                              *)
(***************************************************************************)

\* C20: a request that carries a token the server issued, before the token
\* expires, is let through with the role and the email of the token, whatever
\* the stored user has become, and the routes of the administrator decide by
\* that role; a token carries the role and the email stored at its Login.
C20_TokenOutlivesProfile ==
    [][/\ (/\ Served
           /\ request'.op \in ProtectedWrites
           /\ CarriesToken'
           /\ CarriedToken' \in tokens
           /\ now < CarriedToken'.claims.exp)
          => /\ request'.userID = CarriedToken'.claims.user_id
             /\ request'.role = CarriedToken'.claims.role
             /\ request'.email = CarriedToken'.claims.email
             /\ request'.op \in CategoryWrites
                    => (resp'.code = 403 <=> CarriedToken'.claims.role # "admin")
       /\ \A t \in tokens' \ tokens :
             /\ t.claims.role = users[t.claims.user_id].role
             /\ t.claims.email = users[t.claims.user_id].email]_vars

\* the stored user is no administrator any more and has another email, and a
\* category has just been created with the token issued before the change
C20_Witness ==
    /\ request.op = "CreateCategory"
    /\ resp.code = 201
    /\ request.role = "admin"
    /\ users[request.userID].role = "user"
    /\ users[request.userID].email # request.email

(***************************************************************************)
(* Denied or not found                                                     *)
(***************************************************************************)

\* the table an update or delete request addresses
TargetTable(op) ==
    IF op \in PostWrites THEN posts
    ELSE IF op \in CommentWrites THEN comments
    ELSE IF op \in UserWrites THEN users
    ELSE categories

\* C21: an update or delete of a post, comment, user or category is answered
\* with permission-denied only when the addressed resource exists, and an
\* authenticated request addressing a resource that does not exist is
\* answered with not-found.
C21_DeniedOnlyWhenFound ==
    [][(/\ Served
        /\ request'.op \in PostWrites \cup CommentWrites \cup UserWrites
                              \cup {"UpdateCategory", "DeleteCategory"}
        /\ Authenticated'
        /\ ~ParseFails(request'.id))
       => /\ resp'.code = 403 => Live(TargetTable(request'.op), request'.id)
          /\ ~Live(TargetTable(request'.op), request'.id) => resp'.code = 404]_vars

(***************************************************************************)
(* Threads of comments                                                     *)
(***************************************************************************)

\* C22: every stored comment that has a parent is a comment on the post its
\* parent is a comment on.
C22_ReplyOnParentsPost ==
    \A c \in DOMAIN comments :
        comments[c].parent_id # NoID
            => /\ comments[c].parent_id \in DOMAIN comments
               /\ comments[comments[c].parent_id].post_id = comments[c].post_id

\* two posts are open to comments, and a reply has just been edited
C22_Witness ==
    /\ Cardinality({p \in LiveIDs(posts) : Commentable(posts[p])}) = 2
    /\ resp.op = "UpdateComment"
    /\ resp.code = 200
    /\ comments[request.id].parent_id # NoID

(***************************************************************************)
(* Ownership                                                               *)
(***************************************************************************)

\* C23: no step changes the author of a stored post, nor the author, the post
\* or the parent of a stored comment, whoever performs it.
C23_ReferencesKept ==
    [][/\ \A p \in DOMAIN posts :
             p \in DOMAIN posts' /\ posts'[p].author_id = posts[p].author_id
       /\ \A c \in DOMAIN comments :
             /\ c \in DOMAIN comments'
             /\ comments'[c].author_id = comments[c].author_id
             /\ comments'[c].post_id = comments[c].post_id
             /\ comments'[c].parent_id = comments[c].parent_id]_vars

\* an administrator has just updated the post of another user, on which that
\* user has a comment
C23_Witness ==
    /\ request.op = "UpdatePost"
    /\ resp.code = 200
    /\ request.role = "admin"
    /\ posts[request.id].author_id # request.userID
    /\ \E c \in DOMAIN comments :
          /\ comments[c].post_id = request.id
          /\ comments[c].author_id = posts[request.id].author_id

(***************************************************************************)
(* Two UpdatePost requests at once                                         *)
(***************************************************************************)

\* C24: whatever the interleaving of two UpdatePost requests on a post, a
\* stored publish timestamp is never replaced by none or by another one, and
\* a request that asks for no change of status does not take a stored
\* status of published back.
C24_PublishedSurvivesRace ==
    [][\A p \in DOMAIN posts :
          /\ posts[p].published_at # NoTime
                => posts'[p].published_at = posts[p].published_at
          /\ \A r \in Racers :
                (/\ editing[r].stage = "loaded"
                 /\ editing'[r].stage = "saved"
                 /\ editing[r].post.id = p
                 /\ editing[r].req.status = ""
                 /\ posts[p].status = "published")
                => posts'[p].status = "published"]_vars

(***************************************************************************)
(* Categories deleted while posts are tagged                               *)
(***************************************************************************)

\* C25: in every reachable state, whatever the interleaving of DeleteCategory
\* with a request that tags a post with the category, every stored
\* post-category association refers to a category that is not deleted.
C25_NoJoinToDeletedCategory ==
    \A pc \in post_categories : Live(categories, pc[2])

(***************************************************************************)
(* No administrator out of none                                            *)
(***************************************************************************)

\* C26: from a store without an administrator and without a token of role
\* admin, Register, Login, UpdateUser and DeleteUser never store a user of
\* role admin (nor issue a token of that role).
C26_NoAdminFromNone ==
    /\ \A u \in DOMAIN users : users[u].role # "admin"
    /\ \A t \in tokens : t.claims.role # "admin"

\* a user has just updated the own profile with a request that asks for the
\* role admin too: the other fields are stored
C26_Witness ==
    /\ request.op = "UpdateUser"
    /\ resp.code = 200
    /\ request.id = request.userID
    /\ users[request.id].first_name = "Al"
    /\ users[request.id].role = "user"

(***************************************************************************)
(* Deleted users                                                           *)
(***************************************************************************)

\* C27: once a user is deleted, no CreatePost, CreateComment, UpdatePost or
\* DeletePost request is carried out in the name of that user: such a
\* request changes no post and no comment, and no post or comment is stored
\* with the deleted user as its author.
C27_DeletedUserActsNoMore ==
    [][(/\ Served
        /\ request'.op \in {"CreatePost", "CreateComment", "UpdatePost", "DeletePost"}
        /\ request'.userID \in DOMAIN users
        /\ users[request'.userID].deleted)
       => /\ UNCHANGED <<posts, comments>>
          /\ resp'.code \notin {200, 201}]_vars

(***************************************************************************)
(* Slugs of deleted posts                                                  *)
(***************************************************************************)

\* C28: CreatePost whose title gives the slug of a post that was deleted by
\* DeletePost succeeds, and stores the new post with a slug that is not the
\* slug of the deleted post.
C28_DeletedSlugAvoided ==
    [][\A h \in Headers, req \in SlugPostInputs, random \in Suffixes :
          LET twins == {p \in DOMAIN posts :
                           posts[p].deleted /\ posts[p].slug = CreatedPostBase(req)}
          IN  (CreatePost(h, req, random) /\ Authenticated' /\ twins # {})
                 => /\ resp'.code = 201
                    /\ NewID(posts) \in DOMAIN posts'
                    /\ \A p \in twins : posts'[NewID(posts)].slug # posts[p].slug]_vars

(***************************************************************************)
(* The slug of an updated post                                             *)
(***************************************************************************)

\* C29: UpdatePost that gives the title the post has, and no slug, leaves the
\* stored slug of the post as it was, also when that slug carries a suffix.
C29_SameTitleSameSlug ==
    [][\A h \in Headers, id \in DOMAIN posts, req \in SlugPostInputs,
          random \in Suffixes :
          (/\ UpdatePost(h, id, req, random)
           /\ Authenticated'
           /\ Live(posts, id)
           /\ req.title = posts[id].title
           /\ req.slug = <<>>)
          => posts'[id].slug = posts[id].slug]_vars

(***************************************************************************)
(* Replies to deleted comments                                             *)
(***************************************************************************)

\* C30: in every state reached by CreateComment and DeleteComment requests,
\* the parent of every comment that is not deleted, if it has one, is a
\* comment that is not deleted either.
C30_ParentStillThere ==
    \A c \in LiveIDs(comments) :
        comments[c].parent_id # NoID => Live(comments, comments[c].parent_id)

====
